---------------------------- MODULE Spec2Model ----------------------------
(***************************************************************************)
(* Retrieval pipeline of enterprise-genai-platform: document chunking,     *)
(* embedding generation with retry and per-item fallback, the Faiss and    *)
(* pgvector stores and the hybrid store over both.                         *)
(*                                                                         *)
(* Four specifications share the module, each over its own variables:      *)
(*   SpecChunker    DocumentChunker.chunk_document, one loop pass a step   *)
(*   SpecGenerator  EmbeddingGenerator (single call and batch call)        *)
(*   SpecPipeline   EmbeddingPipeline.process_documents_batch              *)
(*   SpecStore      FaissStore, PgVectorStore and HybridVectorStore        *)
(***************************************************************************)
EXTENDS Integers, Sequences, FiniteSets, TLC

VARIABLES
    \* ---- DocumentChunker.chunk_document (embedding_pipeline.py 46-96)
    tokens,         \* len(tokens) of the content being chunked
    chunk_size,     \* self.chunk_size
    chunk_overlap,  \* self.chunk_overlap
    start,          \* local start
    chunk_index,    \* local chunk_index
    chunks,         \* local chunks, one record per DocumentChunk
    chunker_pc,     \* "loop" while inside chunk_document, "returned" after
    \* ---- EmbeddingGenerator (embedding_pipeline.py 104-167)
    batch_size,     \* self.batch_size
    gen_texts,      \* the texts argument of the call under way
    gen_env,        \* what the embedding capability did during the call
    gen_out,        \* what the call gave its caller
    gen_pc,         \* "idle", "single_done" or "batch_done"
    \* ---- EmbeddingPipeline.process_documents_batch (206-229)
    doc_batch,      \* the documents argument: token length of each content
    task,           \* per document, the state of its process_document task
    valid_results,  \* the list process_documents_batch returns
    pipeline_pc,    \* "gather" while tasks run, "returned" after
    \* ---- FaissStore (faiss_store.py), one store object
    index,          \* self.index: none before initialize, else its vectors
    documents,      \* self.documents
    document_map,   \* self.document_map, positions counted from 0
    disk_index,     \* the file {index_path}.index
    disk_metadata,  \* the file {index_path}.metadata
    \* ---- PgVectorStore (pgvector_store.py)
    table,          \* the embeddings table: chunk_id -> row
    \* ---- the store object the caller holds (unified_store.py)
    store_type,     \* "faiss", "pgvector" (one backend) or "hybrid" (both)
    primary_store,  \* HybridVectorStore.primary_store
    last,           \* the latest call on the store and how it went
    deleted,        \* documents deleted with success and not added since
    \* ---- rerankers (reranker.py)
    rr_documents,   \* the candidates given to a rerank call, in input order
    rr_env,         \* the cross-encoder: its score per candidate, the queries it fails for
    rr_weights,     \* HybridReranker.weights, as original/total and cross_encoder/total
    rr_out,         \* what the latest reranker call gave its caller
    rr_pc,          \* "idle", or the entry point that has returned
    \* ---- ConfigLoader._substitute_env_vars (config_loader.py 126-136)
    config_data,    \* the data argument: a string, a list or a dict
    environ,        \* os.environ: variable name -> value
    substituted,    \* what the call returned
    loader_pc,      \* "idle", "called" or "returned"
    \* ---- threads calling one FaissStore (faiss_store.py 85-133, 197-258)
    writer,         \* per thread: its call, its locals and the line it is at
    \* ---- PgVectorStore's connection pool (pgvector_store.py 29-61)
    pool,           \* self.pool: 0 for None, else the number of the pool held
    created,        \* how many pools asyncpg.create_pool has returned
    caller,         \* per task: its operation, where it is, the pool it uses
    \* ---- WorkflowEngine, one execution id (workflow_engine.py 57-112, 270-277)
    steps,          \* workflow_config.steps: the type of each step
    step_index,     \* the step whose tool call execute_workflow awaits (from 1)
    workflow_pc,    \* "called", "tool" (waiting in tool.execute) or "returned"
    status,         \* executions[execution_id].status, "absent" before it is stored
    cancel_result,  \* what the latest cancel_execution returned, "none" before
    \* ---- UnifiedVectorStore (unified_store.py 49-165); its store_type is
    \* the variable store_type above
    store,          \* self.store: the class of the backend object and its argument
    unified_last    \* the latest call on the UnifiedVectorStore and how it ended

chunkerVars == <<tokens, start, chunk_index, chunks, chunker_pc>>
configVars == <<chunk_size, chunk_overlap, batch_size>>
generatorVars == <<gen_texts, gen_env, gen_out, gen_pc>>
pipelineVars == <<doc_batch, task, valid_results, pipeline_pc>>

faissVars == <<index, documents, document_map, disk_index, disk_metadata>>
storeVars == <<faissVars, table, store_type, primary_store, last, deleted>>

rerankerVars == <<rr_documents, rr_env, rr_weights, rr_out, rr_pc>>

loaderVars == <<config_data, environ, substituted, loader_pc>>

\* The components added after the rerankers.
writerVars == <<writer>>
poolVars == <<pool, created, caller>>
workflowVars == <<steps, step_index, workflow_pc, status, cancel_result>>
unifiedVars == <<store, unified_last>>
laterVars == <<loaderVars, writerVars, poolVars, workflowVars, unifiedVars>>

vars == <<chunkerVars, configVars, generatorVars, pipelineVars, storeVars, rerankerVars, laterVars>>

\* ------------------------------------------------------------------ bounds

\* Longest content, in tokens, given to chunk_document.
MaxTokens == 5
\* Largest chunk_size a chunker is configured with.
MaxChunkSize == 3
\* Loop passes of chunk_document that are followed before the run is cut.
MaxPasses == 7
\* Most texts given to one generate_embeddings_batch call.
MaxTexts == 3
\* Largest batch_size a generator is configured with.
MaxBatchSize == 2
\* Most consecutive failures the capability gives the requests for one text.
MaxFailures == 3
\* Most documents given to one process_documents_batch call.
MaxDocs == 2
\* Longest content, in tokens, of a document given to the pipeline.
MaxDocTokens == 2
\* Most vectors the Faiss index is grown to.
MaxStored == 2
\* Largest top_k a search is made with.
MaxTopK == 2

\* Most candidates given to one rerank call.
MaxCandidates == 3
\* Most queries given to one batch_rerank call.
MaxQueries == 2
\* Largest weight given to set_weights.
MaxWeight == 2
\* ConfigLoader: characters per str, items per list, nesting of values.
MaxStrLen == 5
MaxItems == 2
MaxDepth == 1
\* Threads that call one FaissStore at the same time.
MaxWriters == 2
\* Tasks that call one PgVectorStore at the same time.
MaxTasks == 2
\* Steps of a workflow.
MaxSteps == 3

\* ----------------------------------------------------------------- helpers

Min(a, b) == IF a < b THEN a ELSE b
Max(a, b) == IF a > b THEN a ELSE b

\* len(seq[lo:hi]) for a Python list of length n: a negative bound counts
\* from the end, and both bounds are clipped to 0..n.
PySliceLen(n, lo, hi) ==
    LET l == IF lo < 0 THEN Max(lo + n, 0) ELSE Min(lo, n)
        h == IF hi < 0 THEN Max(hi + n, 0) ELSE Min(hi, n)
    IN  Max(h - l, 0)

\* ------------------------------------------------- DocumentChunker (46-96)

\* 'total_chunks' as written into every chunk's metadata (line 74).
TotalChunksMeta(n, size) == (n \div size) + (IF n % size > 0 THEN 1 ELSE 0)

\* A loop body that moves start one token past end - chunk_overlap.
ChunkLoopBodySkipsToken(st, n, size, overlap) ==
    LET end   == Min(st.start + size, n)
        chunk == [start         |-> st.start,
                  end           |-> end,
                  chunk_index   |-> st.chunk_index,
                  chunk_size    |-> PySliceLen(n, st.start, end),
                  chunk_overlap |-> IF st.chunk_index > 0 THEN overlap ELSE 0,
                  total_chunks  |-> TotalChunksMeta(n, size)]
        next  == end - overlap + 1
    IN  [start       |-> next,
         chunk_index |-> st.chunk_index + 1,
         chunks      |-> Append(st.chunks, chunk),
         break       |-> next >= n]

\* One pass of the while loop body (lines 59-93) from loop state st =
\* [start, chunk_index, chunks]: the chunk appended, the new start, and
\* whether line 92 breaks out of the loop.
ChunkLoopBody(st, n, size, overlap) ==
    LET end   == Min(st.start + size, n)
        chunk == [start         |-> st.start,
                  end           |-> end,
                  chunk_index   |-> st.chunk_index,
                  chunk_size    |-> PySliceLen(n, st.start, end),
                  chunk_overlap |-> IF st.chunk_index > 0 THEN overlap ELSE 0,
                  total_chunks  |-> TotalChunksMeta(n, size)]
        next  == end - overlap
    IN  [start       |-> next,
         chunk_index |-> st.chunk_index + 1,
         chunks      |-> Append(st.chunks, chunk),
         break       |-> next >= n]

RECURSIVE ChunkRun(_, _, _, _, _)
\* The while loop of chunk_document run from loop state st for at most
\* `passes` passes: the chunks, and whether the function returned.
ChunkRun(st, n, size, overlap, passes) ==
    IF ~(st.start < n)
    THEN [returned |-> TRUE, chunks |-> st.chunks]
    ELSE IF passes = 0
         THEN [returned |-> FALSE, chunks |-> st.chunks]
         ELSE LET s2 == ChunkLoopBody(st, n, size, overlap)
              IN  IF s2.break
                  THEN [returned |-> TRUE, chunks |-> s2.chunks]
                  ELSE ChunkRun(s2, n, size, overlap, passes - 1)

\* chunk_document(content) as a whole, for a content of n tokens.  A run
\* that has not returned after MaxPasses passes is reported as not returned.
ChunkDocument(n, size, overlap) ==
    ChunkRun([start |-> 0, chunk_index |-> 0, chunks |-> <<>>],
             n, size, overlap, MaxPasses)

\* ----------------------------------------------- EmbeddingGenerator (104-167)

\* A text is represented by its token count (a positive number); the
\* embedding capability maps a text to a vector that depends on the text only.
Embed(text) == <<text>>
\* len(self.encoding.encode(text)), and the usage.total_tokens of a
\* single-text response.
CountTokens(text) == text

\* estimated_chunks of one document (line 239).
EstimatedChunks(content_tokens, size) == (content_tokens + size - 1) \div size

RECURSIVE EstimateCost(_, _)
\* The counts estimate_cost returns (lines 231-253) for documents given by
\* the token count of their content: total_documents, estimated_chunks and
\* estimated_tokens.  The price derived from estimated_tokens is left out.
EstimateCost(docs, size) ==
    IF docs = <<>>
    THEN [total_documents |-> 0, estimated_chunks |-> 0, estimated_tokens |-> 0]
    ELSE LET rest == EstimateCost(Tail(docs), size)
         IN  [total_documents  |-> rest.total_documents + 1,
              estimated_chunks |-> rest.estimated_chunks
                                   + EstimatedChunks(CountTokens(Head(docs)), size),
              estimated_tokens |-> rest.estimated_tokens + CountTokens(Head(docs))]

\* Mutant of StopAfterAttempt: the decorator allows a fourth attempt.
StopAfterFourAttempts == 3 + 1

\* stop_after_attempt(3) of the @retry decorator (line 113).
StopAfterAttempt == 3

\* ([], 0), appended for an item whose individual request failed (line 161).
DegradedResult == [embedding |-> <<>>, token_count |-> 0]

RECURSIVE Retrying(_, _, _)
\* The @retry wrapper around generate_embedding (lines 113-129) from attempt
\* number `attempt` on, when the capability fails the first `failures`
\* requests for this text and answers the next one.  A failed attempt
\* re-raises (line 129) and tenacity tries again until StopAfterAttempt
\* attempts have been made, then raises RetryError.
Retrying(text, attempt, failures) ==
    IF attempt > failures
    THEN [raised   |-> FALSE,
          calls    |-> attempt,
          response |-> attempt,
          value    |-> [embedding |-> Embed(text), token_count |-> CountTokens(text)]]
    ELSE IF attempt >= StopAfterAttempt
         THEN [raised   |-> TRUE,
               calls    |-> attempt,
               response |-> 0,
               value    |-> DegradedResult]
         ELSE Retrying(text, attempt + 1, failures)

\* generate_embedding(text) with its decorator.
GenerateEmbedding(text, failures) == Retrying(text, 1, failures)

\* Mutant of FallbackItem: an item whose single call fails is skipped
\* instead of being recorded as ([], 0).
FallbackItemSkipsFailed(text, failures) ==
    LET r == GenerateEmbedding(text, failures)
    IN  IF r.raised THEN <<>> ELSE <<r.value>>

\* The except branch's loop body (lines 155-161) for one text of a failed
\* batch: what is appended to results.
FallbackItem(text, failures) ==
    LET r == GenerateEmbedding(text, failures)
    IN  IF r.raised THEN <<DegradedResult>> ELSE <<r.value>>

RECURSIVE FallbackLoop(_, _, _, _)
\* for text in batch (lines 155-161), batch being texts[lo..hi] (1-based).
FallbackLoop(texts, lo, hi, item_failures) ==
    IF lo > hi
    THEN <<>>
    ELSE FallbackItem(texts[lo], item_failures[lo])
         \o FallbackLoop(texts, lo + 1, hi, item_failures)

\* The try branch's loop (lines 145-148): one result per entry of
\* response.data, a list parallel to the batch.
BatchResponse(texts, lo, hi) ==
    [k \in 1..(hi - lo + 1) |->
        [embedding |-> Embed(texts[lo + k - 1]),
         token_count |-> CountTokens(texts[lo + k - 1])]]

RECURSIVE BatchLoop(_, _, _, _, _)
\* for i in range(0, len(texts), batch_size) (lines 136-161), from offset i
\* (0-based).  batch_fails holds the offsets whose batch request raises.
BatchLoop(texts, bsize, i, batch_fails, item_failures) ==
    IF i >= Len(texts)
    THEN <<>>
    ELSE LET lo == i + 1
             hi == Min(i + bsize, Len(texts))
             part == IF i \in batch_fails
                     THEN FallbackLoop(texts, lo, hi, item_failures)
                     ELSE BatchResponse(texts, lo, hi)
         IN  part \o BatchLoop(texts, bsize, i + bsize, batch_fails, item_failures)

\* generate_embeddings_batch(texts) (lines 131-163).
GenerateEmbeddingsBatch(texts, bsize, batch_fails, item_failures) ==
    BatchLoop(texts, bsize, 0, batch_fails, item_failures)

\* The offsets range(0, n, bsize) at which a batch starts.
BatchOffsets(n, bsize) == {i \in 0..(n - 1) : i % bsize = 0}

\* What the capability may do during one batch call over n texts: which
\* batch requests raise, and how many single requests fail for each text
\* before one is answered.
Environments(n, bsize, maxFailures) ==
    [batch_fails : SUBSET BatchOffsets(n, bsize),
     item_failures : [1..n -> 0..maxFailures]]

\* What client.embeddings.create may raise inside generate_embedding (lines
\* 116-119), all of it caught and re-raised by `except Exception` (127-129):
\* failures that pass (a timeout, a refused connection, a rate limit) and
\* failures that every request for the same input meets again (the input is
\* rejected as invalid).
TransientKinds == {"timeout", "connection_refused", "rate_limit"}
HardKinds == {"validation"}

\* What the capability may do during one generate_embedding call: answer at
\* once, fail some first requests with a passing failure, or reject every
\* request.
FailureCases ==
    {[kind |-> "none", failures |-> 0]}
    \cup {[kind |-> k, failures |-> f] : k \in TransientKinds, f \in 1..MaxFailures}
    \cup {[kind |-> k, failures |-> MaxFailures] : k \in HardKinds}

\* ------------------------------------------------ EmbeddingPipeline (170-229)

\* zip(chunks, embedding_results) turned into EmbeddingResults (lines 193-201).
ZipResults(chs, embedding_results) ==
    [k \in 1..Min(Len(chs), Len(embedding_results)) |->
        [chunk_index |-> chs[k].chunk_index,
         embedding   |-> embedding_results[k].embedding,
         token_count |-> embedding_results[k].token_count]]

\* texts = [chunk.content for chunk in chunks] (line 187).
ChunkTexts(chs) == [k \in 1..Len(chs) |-> chs[k].chunk_size]

\* process_document (lines 177-204) once chunk_document has returned chs,
\* with the capability behaving as env during the batch call.
ProcessDocument(chs, bsize, env) ==
    IF chs = <<>>
    THEN <<>>
    ELSE ZipResults(chs, GenerateEmbeddingsBatch(ChunkTexts(chs), bsize,
                             env.batch_fails, env.item_failures))

\* The loop over the gathered results (lines 221-227).
ValidResults(tasks) ==
    [d \in 1..Len(tasks) |-> IF tasks[d].raised THEN <<>> ELSE tasks[d].results]

\* ----------------------------------------------------------------- vectors

Abs(x) == IF x < 0 THEN -x ELSE x

\* A vector is [dir, mag]: its direction, in steps of 45 degrees, and its
\* length.  Cosine[k + 1] is 1000 times the cosine of k steps.
Cosine == <<1000, 707, 0>>

\* embedding / np.linalg.norm(embedding)
Normalize(v) == [dir |-> v.dir, mag |-> 1]

\* The inner product IndexFlatIP computes, times 1000.
InnerProduct(u, v) == u.mag * v.mag * Cosine[Abs(u.dir - v.dir) + 1]

\* 1 - (embedding <=> query), pgvector's cosine distance, times 1000.
CosineSimilarity(u, v) == Cosine[Abs(u.dir - v.dir) + 1]

\* The records callers add: chunk 1 is ingested under document A and again,
\* with other content, under document B; chunk 2 belongs to B.  The metadata
\* of a record is a dict with the one key "lang".
ChunkA1 ==
    [chunk_id |-> 1, document_id |-> "A", content |-> "a1",
     embedding |-> [dir |-> 0, mag |-> 1], metadata |-> [lang |-> "en"]]
ChunkB1 ==
    [chunk_id |-> 1, document_id |-> "B", content |-> "b1",
     embedding |-> [dir |-> 2, mag |-> 1], metadata |-> [lang |-> "fr"]]
ChunkB2 ==
    [chunk_id |-> 2, document_id |-> "B", content |-> "b2",
     embedding |-> [dir |-> 1, mag |-> 2], metadata |-> [lang |-> "en"]]

ChunkPool == {ChunkA1, ChunkB1, ChunkB2}

DocumentIds == {r.document_id : r \in ChunkPool}
ChunkIds == {r.chunk_id : r \in ChunkPool}

\* The embeddings_data argument of one add_embeddings call: one record, or
\* the chunks of two documents together.
Batches == {<<r>> : r \in ChunkPool} \cup {<<ChunkA1, ChunkB2>>}

Queries == {[dir |-> d, mag |-> 1] : d \in 0..2}
Thresholds == {0, 707, 1000}

Backends == {"pgvector", "faiss"}

\* What a store call gives its caller: a returned bool or a raised exception.
\* `named` is the set of backends the outcome attributes a failure to: a bare
\* bool and a re-raised backend exception attribute it to none.
Returned(value) == [raised |-> FALSE, value |-> value, named |-> {}]
Raised == [raised |-> TRUE, value |-> FALSE, named |-> {}]

\* ------------------------------------------------------ FaissStore (25-280)

NoIndex == [none |-> TRUE, xb |-> <<>>]
NoFile == [exists |-> FALSE, data |-> <<>>]

\* {doc.chunk_id: i for i, doc in enumerate(docs)} (line 68): a later
\* position overwrites an earlier one.
DocumentMapOf(docs) ==
    [c \in {docs[i].chunk_id : i \in 1..Len(docs)} |->
        CHOOSE p \in 0..(Len(docs) - 1) :
            /\ docs[p + 1].chunk_id = c
            /\ \A q \in 0..(Len(docs) - 1) : docs[q + 1].chunk_id = c => q <= p]

\* _create_index (lines 51-56).
CreateIndex ==
    [index |-> [none |-> FALSE, xb |-> <<>>], documents |-> <<>>, document_map |-> <<>>]

\* _load_index (lines 58-68); raises when the metadata file is missing.
LoadIndex(fs, dindex, dmeta) ==
    IF ~dmeta.exists
    THEN [raised |-> TRUE, fs |-> [fs EXCEPT !.index = [none |-> FALSE, xb |-> dindex.data]]]
    ELSE [raised |-> FALSE,
          fs |-> [index |-> [none |-> FALSE, xb |-> dindex.data],
                  documents |-> dmeta.data,
                  document_map |-> DocumentMapOf(dmeta.data)]]

\* initialize (lines 38-49).
FaissInitialize(fs, dindex, dmeta) ==
    IF dindex.exists
    THEN LoadIndex(fs, dindex, dmeta)
    ELSE [raised |-> FALSE, fs |-> CreateIndex]

\* if self.index is None: self.initialize() (lines 87-88, 142-143, ...).
EnsureInitialized(fs, dindex, dmeta) ==
    IF fs.index.none
    THEN FaissInitialize(fs, dindex, dmeta)
    ELSE [raised |-> FALSE, fs |-> fs]

\* How a _save_index call ends: both files written, or an error raised by
\* the index write (no file changed) or by the metadata write (the index
\* file already rewritten).
SaveOutcomes == {"saved", "index_write_fails", "metadata_write_fails"}
\* The outcomes a caller of the store tells apart: the files are written, or
\* the write raises before a file is touched.
CallerSaveOutcomes == {"saved", "index_write_fails"}

\* A _save_index that writes the index file and leaves the metadata file as
\* it was.
SaveIndexKeepsMetadata(fs, dindex, dmeta, save) ==
    [raised |-> save # "saved",
     disk_index |-> IF save = "index_write_fails"
                    THEN dindex
                    ELSE [exists |-> TRUE, data |-> fs.index.xb],
     disk_metadata |-> dmeta]

\* _save_index (lines 70-83).
SaveIndex(fs, dindex, dmeta, save) ==
    [raised |-> save # "saved",
     disk_index |-> IF save = "index_write_fails"
                    THEN dindex
                    ELSE [exists |-> TRUE, data |-> fs.index.xb],
     disk_metadata |-> IF save = "saved"
                       THEN [exists |-> TRUE, data |-> fs.documents]
                       ELSE dmeta]

RECURSIVE SelectPositions(_, _)
\* The items of a list whose positions (from 0) are in keep, in order.
SelectPositions(list, keep) ==
    IF list = <<>>
    THEN <<>>
    ELSE SelectPositions(SubSeq(list, 1, Len(list) - 1), keep)
         \o (IF (Len(list) - 1) \in keep THEN <<list[Len(list)]>> ELSE <<>>)

\* The FaissDocument made of one input record (lines 103-108).
FaissDocument(data) ==
    [content |-> data.content, metadata |-> data.metadata,
     chunk_id |-> data.chunk_id, document_id |-> data.document_id]

\* The document_map update of add_embeddings (lines 122-123).
ExtendDocumentMap(map, start_idx, new_documents) ==
    LET new_ids == {new_documents[k].chunk_id : k \in 1..Len(new_documents)}
    IN  [c \in (DOMAIN map) \cup new_ids |->
            IF c \in new_ids
            THEN start_idx + DocumentMapOf(new_documents)[c]
            ELSE map[c]]

\* The in-memory part of add_embeddings (lines 91-123).
AppendEmbeddings(fs, embeddings_data) ==
    LET embeddings == [k \in 1..Len(embeddings_data) |->
                          Normalize(embeddings_data[k].embedding)]
        new_documents == [k \in 1..Len(embeddings_data) |->
                             FaissDocument(embeddings_data[k])]
    IN  [index |-> [none |-> FALSE, xb |-> fs.index.xb \o embeddings],
         documents |-> fs.documents \o new_documents,
         document_map |-> ExtendDocumentMap(fs.document_map, Len(fs.documents),
                                            new_documents)]

\* add_embeddings (lines 85-133): the store and the files after the call,
\* and whether it raised.
FaissAddEmbeddings(fs, dindex, dmeta, embeddings_data, save) ==
    LET init == EnsureInitialized(fs, dindex, dmeta)
    IN  IF init.raised
        THEN [raised |-> TRUE, fs |-> init.fs,
              disk_index |-> dindex, disk_metadata |-> dmeta]
        ELSE LET fs2 == AppendEmbeddings(init.fs, embeddings_data)
                 sv  == SaveIndex(fs2, dindex, dmeta, save)
             IN  [raised |-> sv.raised, fs |-> fs2,
                  disk_index |-> sv.disk_index, disk_metadata |-> sv.disk_metadata]

RECURSIVE KeepOthers(_, _)
\* documents without the records of document_id (lines 204-215).
KeepOthers(docs, document_id) ==
    IF docs = <<>>
    THEN <<>>
    ELSE IF Head(docs).document_id = document_id
         THEN KeepOthers(Tail(docs), document_id)
         ELSE <<Head(docs)>> \o KeepOthers(Tail(docs), document_id)

\* _rebuild_index (lines 227-258) on the store whose documents are docs.
RebuildIndex(docs) ==
    IF docs = <<>>
    THEN CreateIndex
    ELSE [index |-> [none |-> FALSE, xb |-> <<>>],
          documents |-> <<>>,
          document_map |-> <<>>]

\* delete_document (lines 197-225).
FaissDeleteDocument(fs, dindex, dmeta, document_id) ==
    LET init == EnsureInitialized(fs, dindex, dmeta)
        kept == KeepOthers(init.fs.documents, document_id)
        removed == Len(init.fs.documents) - Len(kept)
    IN  IF init.raised
        THEN [raised |-> TRUE, fs |-> init.fs, removed |-> 0]
        ELSE IF removed = 0
             THEN [raised |-> FALSE, fs |-> init.fs, removed |-> 0]
             ELSE [raised |-> FALSE, fs |-> RebuildIndex(kept), removed |-> removed]

\* clear (lines 276-280).
FaissClear(fs, dindex, dmeta, save) ==
    LET sv == SaveIndex(CreateIndex, dindex, dmeta, save)
    IN  [raised |-> sv.raised, fs |-> CreateIndex,
         disk_index |-> sv.disk_index, disk_metadata |-> sv.disk_metadata]

RECURSIVE WorstFirst(_, _, _)
\* An index.search that ranks the lowest inner product first.
WorstFirst(xb, query, left) ==
    IF left = {}
    THEN <<>>
    ELSE LET worst == CHOOSE i \in left : \A j \in left :
                        \/ InnerProduct(xb[i + 1], query) < InnerProduct(xb[j + 1], query)
                        \/ /\ InnerProduct(xb[i + 1], query) = InnerProduct(xb[j + 1], query)
                           /\ i <= j
         IN  <<worst>> \o WorstFirst(xb, query, left \ {worst})

RECURSIVE BestFirst(_, _, _)
\* index.search: the k best positions (from 0) of xb by inner product with
\* the query, best first, the earlier position first among equal scores.
BestFirst(xb, query, left) ==
    IF left = {}
    THEN <<>>
    ELSE LET best == CHOOSE i \in left : \A j \in left :
                        \/ InnerProduct(xb[i + 1], query) > InnerProduct(xb[j + 1], query)
                        \/ /\ InnerProduct(xb[i + 1], query) = InnerProduct(xb[j + 1], query)
                           /\ i <= j
         IN  <<best>> \o BestFirst(xb, query, left \ {best})

\* similarity_search (lines 135-177) on an initialized store; raises when a
\* hit's position is outside self.documents (line 163).
FaissSimilaritySearch(fs, query_embedding, top_k, similarity_threshold) ==
    IF Len(fs.index.xb) = 0
    THEN [raised |-> FALSE, results |-> <<>>]
    ELSE LET query == Normalize(query_embedding)
             k == Min(top_k, Len(fs.index.xb))
             hits == SubSeq(BestFirst(fs.index.xb, query, 0..(Len(fs.index.xb) - 1)), 1, k)
             kept == SelectSeq(hits, LAMBDA i :
                        InnerProduct(fs.index.xb[i + 1], query) >= similarity_threshold)
         IN  IF \E n \in 1..Len(kept) : kept[n] >= Len(fs.documents)
             THEN [raised |-> TRUE, results |-> <<>>]
             ELSE [raised |-> FALSE,
                   results |-> [n \in 1..Len(kept) |->
                       [chunk_id |-> fs.documents[kept[n] + 1].chunk_id,
                        document_id |-> fs.documents[kept[n] + 1].document_id,
                        content |-> fs.documents[kept[n] + 1].content,
                        metadata |-> fs.documents[kept[n] + 1].metadata,
                        similarity_score |-> InnerProduct(fs.index.xb[kept[n] + 1], query)]]]

\* get_document_chunks (lines 179-195) on an initialized store.
FaissGetDocumentChunks(fs, document_id) ==
    SelectSeq(fs.documents, LAMBDA doc : doc.document_id = document_id)

\* --------------------------------------------------- PgVectorStore (26-236)

\* stop_after_attempt(3) of the @retry decorators of add_embeddings and
\* similarity_search (lines 54 and 96).
PgStopAfterAttempt == 3

RECURSIVE PgRetrying(_, _, _)
\* A store method called with at most `limit` attempts when the connection
\* fails for the first `failures` attempts (the lazy pool initialisation and
\* the query of one attempt fail or succeed together).  An undecorated
\* method is called with limit 1: its except branch re-raises at once.
PgRetrying(attempt, failures, limit) ==
    IF attempt > failures
    THEN [raised |-> FALSE, attempts |-> attempt]
    ELSE IF attempt >= limit
         THEN [raised |-> TRUE, attempts |-> attempt]
         ELSE PgRetrying(attempt + 1, failures, limit)

\* INSERT ... ON CONFLICT (chunk_id) DO NOTHING: a conflicting row is kept
\* as it is.
UpsertKeepsOldRow(tbl, data) ==
    IF data.chunk_id \in DOMAIN tbl
    THEN tbl
    ELSE [c \in (DOMAIN tbl) \cup {data.chunk_id} |->
             IF c = data.chunk_id
             THEN [document_id |-> data.document_id, content |-> data.content,
                   embedding |-> data.embedding, metadata |-> data.metadata]
             ELSE tbl[c]]

\* INSERT ... ON CONFLICT (chunk_id) DO UPDATE SET content, embedding,
\* metadata, updated_at (lines 76-85) for one record: a conflicting row
\* keeps its document_id.
Upsert(tbl, data) ==
    IF data.chunk_id \in DOMAIN tbl
    THEN [tbl EXCEPT ![data.chunk_id] =
             [@ EXCEPT !.content = data.content, !.embedding = data.embedding,
                       !.metadata = data.metadata]]
    ELSE [c \in (DOMAIN tbl) \cup {data.chunk_id} |->
             IF c = data.chunk_id
             THEN [document_id |-> data.document_id, content |-> data.content,
                   embedding |-> data.embedding, metadata |-> data.metadata]
             ELSE tbl[c]]

RECURSIVE ExecuteMany(_, _)
\* conn.executemany over values, in order (lines 75-87).
ExecuteMany(tbl, values) ==
    IF values = <<>>
    THEN tbl
    ELSE ExecuteMany(Upsert(tbl, Head(values)), Tail(values))

\* add_embeddings (lines 54-94).
PgAddEmbeddings(tbl, embeddings_data, failures) ==
    LET r == PgRetrying(1, failures, PgStopAfterAttempt)
    IN  [raised |-> r.raised, attempts |-> r.attempts,
         table |-> IF r.raised THEN tbl ELSE ExecuteMany(tbl, embeddings_data)]

\* A DELETE that matches no row.
DeleteNoRows(tbl, document_id) == tbl

\* DELETE FROM table WHERE document_id = $1 (lines 194-197).
DeleteRows(tbl, document_id) ==
    [c \in {c \in DOMAIN tbl : tbl[c].document_id # document_id} |-> tbl[c]]

\* delete_document (lines 187-205): not decorated, one attempt.
PgDeleteDocument(tbl, document_id, failures) ==
    LET r == PgRetrying(1, failures, 1)
        after == DeleteRows(tbl, document_id)
    IN  [raised |-> r.raised, attempts |-> r.attempts,
         table |-> IF r.raised THEN tbl ELSE after,
         removed |-> IF r.raised
                     THEN 0
                     ELSE Cardinality(DOMAIN tbl) - Cardinality(DOMAIN after)]

RECURSIVE OrderRows(_, _, _)
\* ORDER BY similarity_score DESC over the chunk ids in `left`, the lower
\* chunk_id first among equal scores.
OrderRows(tbl, query, left) ==
    IF left = {}
    THEN <<>>
    ELSE LET best == CHOOSE c \in left : \A d \in left :
                        \/ CosineSimilarity(tbl[c].embedding, query)
                              > CosineSimilarity(tbl[d].embedding, query)
                        \/ /\ CosineSimilarity(tbl[c].embedding, query)
                                = CosineSimilarity(tbl[d].embedding, query)
                           /\ c <= d
         IN  <<best>> \o OrderRows(tbl, query, left \ {best})

\* A filter_metadata argument is a set of <<key, value>> pairs; None and {}
\* are the empty set.
NoFilter == {}
Filters == {NoFilter, {<<"lang", "en">>}, {<<"lang", "fr">>}}

\* AND metadata->>'key' = value, for every pair of the filter (lines 126-130).
MatchesFilter(metadata, filter_metadata) ==
    \A kv \in filter_metadata :
        /\ kv[1] \in DOMAIN metadata
        /\ metadata[kv[1]] = kv[2]

\* The query of similarity_search (lines 111-148), when it is answered.
PgFilteredSearch(tbl, query_embedding, top_k, similarity_threshold, filter_metadata) ==
    LET pass == {c \in DOMAIN tbl :
                    /\ CosineSimilarity(tbl[c].embedding, query_embedding)
                          > similarity_threshold
                    /\ MatchesFilter(tbl[c].metadata, filter_metadata)}
        rows == OrderRows(tbl, query_embedding, pass)
        ids  == SubSeq(rows, 1, Min(top_k, Len(rows)))
    IN  [n \in 1..Len(ids) |->
            [chunk_id |-> ids[n],
             document_id |-> tbl[ids[n]].document_id,
             content |-> tbl[ids[n]].content,
             metadata |-> tbl[ids[n]].metadata,
             similarity_score |-> CosineSimilarity(tbl[ids[n]].embedding, query_embedding)]]

\* similarity_search called without a metadata filter.
PgSimilaritySearch(tbl, query_embedding, top_k, similarity_threshold) ==
    PgFilteredSearch(tbl, query_embedding, top_k, similarity_threshold, NoFilter)

RECURSIVE OrderByChunkId(_)
OrderByChunkId(ids) ==
    IF ids = {}
    THEN <<>>
    ELSE LET least == CHOOSE c \in ids : \A d \in ids : c <= d
         IN  <<least>> \o OrderByChunkId(ids \ {least})

\* The query of get_document_chunks (lines 161-181), when it is answered.
PgGetDocumentChunks(tbl, document_id) ==
    LET ids == OrderByChunkId({c \in DOMAIN tbl : tbl[c].document_id = document_id})
    IN  [n \in 1..Len(ids) |->
            [chunk_id |-> ids[n], content |-> tbl[ids[n]].content,
             metadata |-> tbl[ids[n]].metadata,
             embedding |-> tbl[ids[n]].embedding]]

\* A read of the persistent store (similarity_search, get_document_chunks,
\* get_stats) as a network operation: the attempts made and whether it
\* raised.  similarity_search is decorated (line 96), the other two are not.
PgReadOps == {"similarity_search", "get_document_chunks", "get_stats"}
PgRead(op, failures) ==
    PgRetrying(1, failures, IF op = "similarity_search" THEN PgStopAfterAttempt ELSE 1)

\* ------------------------------------------- HybridVectorStore (168-296)

\* add_embeddings (lines 195-216) on the pair of stores st = [fs, disk_index,
\* disk_metadata, table]: the primary store is written first and the other
\* one after it; an exception of either leaves the try block at once and is
\* re-raised (line 216).  Both backends return True when they do not raise.
HybridAddEmbeddings(st, primary, embeddings_data, failures, save) ==
    LET pg == PgAddEmbeddings(st.table, embeddings_data, failures)
        fa == FaissAddEmbeddings(st.fs, st.disk_index, st.disk_metadata,
                                 embeddings_data, save)
        first  == IF primary = "pgvector" THEN "pgvector" ELSE "faiss"
        second == IF primary = "pgvector" THEN "faiss" ELSE "pgvector"
        raised_by == [b \in Backends |-> IF b = "pgvector" THEN pg.raised ELSE fa.raised]
        attempted == IF raised_by[first] THEN {first} ELSE {first, second}
        failed == {b \in attempted : raised_by[b]}
    IN  [attempted |-> attempted,
         failed |-> failed,
         outcome |-> IF failed # {} THEN Raised ELSE Returned(TRUE),
         pg_attempts |-> IF "pgvector" \in attempted THEN pg.attempts ELSE 0,
         table |-> IF "pgvector" \in attempted THEN pg.table ELSE st.table,
         fs |-> IF "faiss" \in attempted THEN fa.fs ELSE st.fs,
         disk_index |-> IF "faiss" \in attempted THEN fa.disk_index ELSE st.disk_index,
         disk_metadata |-> IF "faiss" \in attempted
                           THEN fa.disk_metadata ELSE st.disk_metadata]

\* delete_document (lines 263-279): pgvector first, then Faiss.
HybridDeleteDocument(st, document_id, failures) ==
    LET pg == PgDeleteDocument(st.table, document_id, failures)
        fa == FaissDeleteDocument(st.fs, st.disk_index, st.disk_metadata, document_id)
        attempted == IF pg.raised THEN {"pgvector"} ELSE {"pgvector", "faiss"}
        failed == {b \in attempted : IF b = "pgvector" THEN pg.raised ELSE fa.raised}
    IN  [attempted |-> attempted,
         failed |-> failed,
         outcome |-> IF failed # {} THEN Raised ELSE Returned(TRUE),
         pg_attempts |-> pg.attempts,
         removed |-> pg.removed + (IF "faiss" \in attempted THEN fa.removed ELSE 0),
         table |-> pg.table,
         fs |-> IF "faiss" \in attempted THEN fa.fs ELSE st.fs]

\* use_faiss: bool = True (line 224).
UseFaissDefault == TRUE

\* similarity_search (lines 218-254) when the backend answers: use_faiss
\* alone picks the backend, and the Faiss call takes no filter.
HybridSimilaritySearch(st, query_embedding, top_k, similarity_threshold, filter_metadata, use_faiss) ==
    IF use_faiss
    THEN LET init == EnsureInitialized(st.fs, st.disk_index, st.disk_metadata)
             found == FaissSimilaritySearch(init.fs, query_embedding, top_k,
                                            similarity_threshold)
         IN  [backend |-> "faiss", fs |-> init.fs,
              raised |-> init.raised \/ found.raised,
              results |-> IF init.raised THEN <<>> ELSE found.results]
    ELSE [backend |-> "pgvector", fs |-> st.fs, raised |-> FALSE,
          results |-> PgFilteredSearch(st.table, query_embedding, top_k,
                                       similarity_threshold, filter_metadata)]

\* ------------------------------------------------- rerankers (reranker.py)
\* Scores are in thousandths.  A candidate is [chunk_id, similarity_score];
\* a result carries, besides the fields of RerankResult, the position its
\* candidate had in the input (input_index, from 0), which the program does
\* not keep.

\* The candidates a retrieval hands over: chunk ids may repeat.
CandidatePool == [chunk_id : {1, 2}, similarity_score : {200, 800}]
\* The scores self.model.predict gives.
CrossEncoderScores == {400, 900}

\* HybridReranker.__init__ (lines 167-170): 0.3 and 0.7.
DefaultWeights == [original |-> 3, cross_encoder |-> 7, total |-> 10]

\* set_weights (lines 226-230): each weight divided by their sum.
SetWeights(original_weight, cross_encoder_weight) ==
    [original |-> original_weight, cross_encoder |-> cross_encoder_weight,
     total |-> original_weight + cross_encoder_weight]

RECURSIVE SortDescending(_, _)
\* list.sort(key=..., reverse=True) over the positions `left` of keys: the
\* greatest key first, equal keys in their input order.
SortDescending(keys, left) ==
    IF left = {}
    THEN <<>>
    ELSE LET first == CHOOSE i \in left : \A j \in left :
                         \/ keys[i] > keys[j]
                         \/ (keys[i] = keys[j] /\ i <= j)
         IN  <<first>> \o SortDescending(keys, left \ {first})

\* original_ranks.get(result.chunk_id, i) - i (lines 81-84, 210-213), with
\* original_ranks = {doc['chunk_id']: i for i, doc in enumerate(documents)}.
RankChange(docs, chunk_id, i) ==
    (IF chunk_id \in DOMAIN DocumentMapOf(docs)
     THEN DocumentMapOf(docs)[chunk_id]
     ELSE i) - i

\* top_k: Optional[int] = None (lines 50, 176): an optional number is <<>>
\* for None and <<k>> for k.
None == <<>>

\* results[:top_k] when top_k is not None (lines 87-88, 216-217).
ApplyTopK(results, top_k) ==
    IF top_k = None
    THEN results
    ELSE SubSeq(results, 1, Min(top_k[1], Len(results)))

\* The results sorted by `keys` with their rank changes.
Ranked(docs, keys, rerank_scores) ==
    LET order == SortDescending(keys, 1..Len(docs))
    IN  [n \in 1..Len(order) |->
            [chunk_id |-> docs[order[n]].chunk_id,
             original_score |-> docs[order[n]].similarity_score,
             rerank_score |-> rerank_scores[order[n]],
             rank_change |-> RankChange(docs, docs[order[n]].chunk_id, n - 1),
             input_index |-> order[n] - 1]]

\* CrossEncoderReranker.rerank (lines 46-95); `fails` says self.model.predict
\* raises.
CrossEncoderRerank(docs, scores, fails, top_k) ==
    IF docs = <<>>
    THEN [raised |-> FALSE, results |-> <<>>]
    ELSE IF fails
         THEN [raised |-> TRUE, results |-> <<>>]
         ELSE [raised |-> FALSE,
               results |-> ApplyTopK(Ranked(docs, scores, scores), top_k)]

\* rerank_with_threshold (lines 97-110).
RerankWithThreshold(docs, scores, fails, threshold) ==
    LET r == CrossEncoderRerank(docs, scores, fails, None)
    IN  IF r.raised
        THEN r
        ELSE [raised |-> FALSE,
              results |-> SelectSeq(r.results, LAMBDA x : x.rerank_score >= threshold)]

\* batch_rerank (lines 112-130) over n queries with the same candidates;
\* `failing` holds the queries self.model.predict raises for.
BatchRerank(n, docs, scores, failing) ==
    [raised |-> FALSE,
     results |-> [q \in 1..n |->
         LET r == CrossEncoderRerank(docs, scores, q \in failing, None)
         IN  IF r.raised THEN <<>> ELSE r.results]]

\* HybridReranker.rerank (lines 172-224).  zip(documents,
\* cross_encoder_results) pairs the document at input position i with the
\* result ranked i by the cross-encoder.  A hybrid score is the numerator of
\* the weighted sum over weights.total.
HybridRerank(docs, scores, fails, weights, top_k) ==
    IF docs = <<>>
    THEN [raised |-> FALSE, results |-> <<>>]
    ELSE LET ce == CrossEncoderRerank(docs, scores, fails, None)
         IN  IF ce.raised
             THEN [raised |-> TRUE, results |-> <<>>]
             ELSE LET hybrid_score == [i \in 1..Len(docs) |->
                          weights.original * docs[i].similarity_score
                              + weights.cross_encoder * ce.results[i].rerank_score]
                  IN  [raised |-> FALSE,
                       results |-> ApplyTopK(Ranked(docs, hybrid_score, hybrid_score),
                                             top_k)]

\* ------------------------------------------------ ConfigLoader (126-136)

\* A str is the sequence of its characters.  "V" is the name of a variable
\* that may be set, "U" the name of one that never is, "t" other text.
Ref(name) == <<"$", "{", name, "}">>

\* str.startswith(prefix) and str.endswith(suffix).
StartsWith(str, prefix) ==
    /\ Len(str) >= Len(prefix)
    /\ SubSeq(str, 1, Len(prefix)) = prefix
EndsWith(str, suffix) ==
    /\ Len(str) >= Len(suffix)
    /\ SubSeq(str, Len(str) - Len(suffix) + 1, Len(str)) = suffix

\* os.getenv(key, default).
GetEnv(env, key, default) == IF key \in DOMAIN env THEN env[key] ELSE default

\* The str branch and the else branch (lines 132-136): a str that starts
\* with "${" and ends with "}" is looked up whole, data[2:-1] being the name.
SubstituteStr(str, env) ==
    IF StartsWith(str, <<"$", "{">>) /\ EndsWith(str, <<"}">>)
    THEN GetEnv(env, SubSeq(str, 3, Len(str) - 1), str)
    ELSE str

\* Values are tagged with their Python type: a str holds its characters, a
\* list its items in order, a dict its value per key.
Str(chars) == [type |-> "str", chars |-> chars]
List(items) == [type |-> "list", items |-> items]
Dict(entries) == [type |-> "dict", entries |-> entries]

RECURSIVE SubstituteEnvVars(_, _)
\* _substitute_env_vars(data) (lines 126-136).
SubstituteEnvVars(d, env) ==
    IF d.type = "dict"
    THEN Dict([k \in DOMAIN d.entries |-> SubstituteEnvVars(d.entries[k], env)])
    ELSE IF d.type = "list"
         THEN List([i \in 1..Len(d.items) |-> SubstituteEnvVars(d.items[i], env)])
         ELSE Str(SubstituteStr(d.chars, env))

\* ------------------------------------------------------------------- idle
\* The values a specification gives to the variables of the components it
\* does not run.

ChunkerIdle ==
    /\ tokens = 0
    /\ start = 0
    /\ chunk_index = 0
    /\ chunks = <<>>
    /\ chunker_pc = "idle"

GeneratorIdle ==
    /\ gen_texts = <<>>
    /\ gen_env = [batch_fails |-> {}, item_failures |-> <<>>, kind |-> "none"]
    /\ gen_out = [raised |-> FALSE, calls |-> 0, response |-> 0, results |-> <<>>]
    /\ gen_pc = "idle"

PipelineIdle ==
    /\ doc_batch = <<>>
    /\ task = <<>>
    /\ valid_results = <<>>
    /\ pipeline_pc = "idle"

\* The arguments of a call that was no search.
NoArgs == [query_embedding |-> [dir |-> 0, mag |-> 1], top_k |-> 0,
           similarity_threshold |-> 0]

NoCall ==
    [op |-> "none", doc |-> "", attempted |-> {}, failed |-> {},
     pg_failures |-> 0, pg_attempts |-> 0, removed |-> 0, outcome |-> Returned(TRUE),
     after |-> "none", args |-> NoArgs, results |-> <<>>]

LoaderIdle ==
    /\ config_data = Str(<<>>)
    /\ environ = <<>>
    /\ substituted = Str(<<>>)
    /\ loader_pc = "idle"

WriterIdle ==
    /\ writer = <<>>

PoolIdle ==
    /\ pool = 0
    /\ created = 0
    /\ caller = <<>>

WorkflowIdle ==
    /\ steps = <<>>
    /\ step_index = 0
    /\ workflow_pc = "idle"
    /\ status = "absent"
    /\ cancel_result = "none"

NoStore == [class |-> "none", argument |-> ""]
NoUnifiedCall == [op |-> "none", new_store_type |-> "", kwargs |-> <<>>, outcome |-> "none"]

UnifiedIdle ==
    /\ store = NoStore
    /\ unified_last = NoUnifiedCall

LaterIdle ==
    /\ LoaderIdle
    /\ WriterIdle
    /\ PoolIdle
    /\ WorkflowIdle
    /\ UnifiedIdle

RerankerIdle ==
    /\ rr_documents = <<>>
    /\ rr_env = [scores |-> <<>>, fails |-> {}]
    /\ rr_weights = DefaultWeights
    /\ rr_out = [raised |-> FALSE, results |-> <<>>]
    /\ rr_pc = "idle"

StoreIdle ==
    /\ index = NoIndex
    /\ documents = <<>>
    /\ document_map = <<>>
    /\ disk_index = NoFile
    /\ disk_metadata = NoFile
    /\ table = <<>>
    /\ store_type = "none"
    /\ primary_store = "pgvector"
    /\ last = NoCall
    /\ deleted = {}

\* ------------------------------------------------------------- SpecChunker

ChunkerInit ==
    /\ tokens \in 0..MaxTokens
    /\ chunk_size \in 1..MaxChunkSize
    /\ chunk_overlap \in 0..(chunk_size - 1)
    /\ start = 0
    /\ chunk_index = 0
    /\ chunks = <<>>
    /\ chunker_pc = "loop"
    /\ batch_size = 1
    /\ GeneratorIdle
    /\ PipelineIdle
    /\ StoreIdle
    /\ RerankerIdle
    /\ LaterIdle

\* while start < len(tokens): one pass of the body (lines 58-93).
ChunkPass ==
    /\ chunker_pc = "loop"
    /\ start < tokens
    /\ Len(chunks) < MaxPasses
    /\ LET st == ChunkLoopBody([start |-> start, chunk_index |-> chunk_index,
                                chunks |-> chunks],
                               tokens, chunk_size, chunk_overlap)
       IN  /\ start' = st.start
           /\ chunk_index' = st.chunk_index
           /\ chunks' = st.chunks
           /\ chunker_pc' = IF st.break THEN "returned" ELSE "loop"
    /\ UNCHANGED <<tokens, configVars, generatorVars, pipelineVars, storeVars, rerankerVars, laterVars>>

\* The while condition fails on entry (empty content): return chunks (96).
ChunkReturn ==
    /\ chunker_pc = "loop"
    /\ ~(start < tokens)
    /\ chunker_pc' = "returned"
    /\ UNCHANGED <<tokens, start, chunk_index, chunks>>
    /\ UNCHANGED <<configVars, generatorVars, pipelineVars, storeVars, rerankerVars, laterVars>>

ChunkerNext == ChunkPass \/ ChunkReturn

SpecChunker == ChunkerInit /\ [][ChunkerNext]_vars

\* ----------------------------------------------------------- SpecGenerator

GeneratorInit ==
    /\ ChunkerIdle
    /\ PipelineIdle
    /\ StoreIdle
    /\ RerankerIdle
    /\ LaterIdle
    /\ chunk_size = 1
    /\ chunk_overlap = 0
    /\ batch_size \in 1..MaxBatchSize
    /\ \E n \in 0..MaxTexts : gen_texts = [i \in 1..n |-> i]
    /\ gen_env = [batch_fails |-> {}, item_failures |-> <<>>, kind |-> "none"]
    /\ gen_out = [raised |-> FALSE, calls |-> 0, response |-> 0, results |-> <<>>]
    /\ gen_pc = "idle"

\* await generator.generate_embedding(text) on the first of the texts.
CallGenerateEmbedding ==
    /\ gen_pc = "idle"
    /\ Len(gen_texts) >= 1
    /\ \E case \in FailureCases :
          LET failures == case.failures
              r == GenerateEmbedding(gen_texts[1], failures)
          IN  /\ gen_env' = [batch_fails |-> {}, item_failures |-> <<failures>>,
                             kind |-> case.kind]
              /\ gen_out' = [raised |-> r.raised, calls |-> r.calls,
                             response |-> r.response,
                             results |-> IF r.raised THEN <<>> ELSE <<r.value>>]
    /\ gen_pc' = "single_done"
    /\ UNCHANGED <<gen_texts, chunkerVars, configVars, pipelineVars, storeVars, rerankerVars, laterVars>>

\* await generator.generate_embeddings_batch(texts).
CallGenerateEmbeddingsBatch ==
    /\ gen_pc = "idle"
    /\ \E env \in Environments(Len(gen_texts), batch_size, MaxFailures) :
          /\ gen_env' = [batch_fails |-> env.batch_fails,
                         item_failures |-> env.item_failures, kind |-> "none"]
          /\ gen_out' = [raised |-> FALSE, calls |-> 0, response |-> 0,
                         results |-> GenerateEmbeddingsBatch(gen_texts, batch_size,
                                         env.batch_fails, env.item_failures)]
    /\ gen_pc' = "batch_done"
    /\ UNCHANGED <<gen_texts, chunkerVars, configVars, pipelineVars, storeVars, rerankerVars, laterVars>>

GeneratorNext == CallGenerateEmbedding \/ CallGenerateEmbeddingsBatch

SpecGenerator == GeneratorInit /\ [][GeneratorNext]_vars

\* ------------------------------------------------------------ SpecPipeline

NoEnv == [batch_fails |-> {}, item_failures |-> <<>>]

PipelineInit ==
    /\ ChunkerIdle
    /\ GeneratorIdle
    /\ StoreIdle
    /\ RerankerIdle
    /\ LaterIdle
    /\ chunk_size \in 1..MaxChunkSize
    /\ chunk_overlap \in 0..(chunk_size - 1)
    /\ batch_size \in 1..MaxBatchSize
    /\ \E n \in 1..MaxDocs : doc_batch \in [1..n -> 0..MaxDocTokens]
    /\ task = [d \in 1..Len(doc_batch) |->
                  [state |-> "pending", raised |-> FALSE, results |-> <<>>,
                   chunks |-> 0, env |-> NoEnv]]
    /\ valid_results = <<>>
    /\ pipeline_pc = "gather"

\* The task of document d runs process_document (lines 177-204).  The call
\* of chunk_document is synchronous: when it does not return, the event loop
\* is held and no other task runs.
RunTask(d) ==
    /\ pipeline_pc = "gather"
    /\ task[d].state = "pending"
    /\ \A e \in 1..Len(task) : task[e].state # "hung"
    /\ LET run == ChunkDocument(doc_batch[d], chunk_size, chunk_overlap)
       IN  IF ~run.returned
           THEN task' = [task EXCEPT ![d].state = "hung"]
           ELSE \E env \in Environments(Len(run.chunks), batch_size, StopAfterAttempt) :
                   task' = [task EXCEPT ![d] =
                               [state   |-> "done",
                                raised  |-> FALSE,
                                results |-> ProcessDocument(run.chunks, batch_size, env),
                                chunks  |-> Len(run.chunks),
                                env     |-> env]]
    /\ UNCHANGED <<doc_batch, valid_results, pipeline_pc>>
    /\ UNCHANGED <<chunkerVars, configVars, generatorVars, storeVars, rerankerVars, laterVars>>

\* asyncio.gather has every result: build valid_results and return (218-229).
Gather ==
    /\ pipeline_pc = "gather"
    /\ \A d \in 1..Len(task) : task[d].state = "done"
    /\ valid_results' = ValidResults(task)
    /\ pipeline_pc' = "returned"
    /\ UNCHANGED <<doc_batch, task>>
    /\ UNCHANGED <<chunkerVars, configVars, generatorVars, storeVars, rerankerVars, laterVars>>

PipelineNext == (\E d \in 1..Len(doc_batch) : RunTask(d)) \/ Gather

SpecPipeline == PipelineInit /\ [][PipelineNext]_vars

\* --------------------------------------------------------------- SpecStore
\* One store object and its caller.  store_type says which object it is: a
\* store over the Faiss backend alone, over pgvector alone, or the hybrid
\* store over both.  `last` is the caller's view of the latest call; the
\* retry trace (pg_failures, pg_attempts) is kept for the calls made on the
\* pgvector store itself.

FS == [index |-> index, documents |-> documents, document_map |-> document_map]
Stores == [fs |-> FS, disk_index |-> disk_index, disk_metadata |-> disk_metadata,
           table |-> table]

SetFaiss(fs) ==
    /\ index' = fs.index
    /\ documents' = fs.documents
    /\ document_map' = fs.document_map

DocsOf(embeddings_data) ==
    {embeddings_data[k].document_id : k \in 1..Len(embeddings_data)}

Outcome(raised) == IF raised THEN Raised ELSE Returned(TRUE)

otherVars == <<chunkerVars, configVars, generatorVars, pipelineVars, rerankerVars, laterVars>>

StoreInit ==
    /\ ChunkerIdle
    /\ GeneratorIdle
    /\ PipelineIdle
    /\ RerankerIdle
    /\ LaterIdle
    /\ chunk_size = 1
    /\ chunk_overlap = 0
    /\ batch_size = 1
    /\ index = NoIndex
    /\ documents = <<>>
    /\ document_map = <<>>
    /\ disk_index = NoFile
    /\ disk_metadata = NoFile
    /\ table = <<>>
    /\ \/ store_type \in {"faiss", "pgvector"} /\ primary_store = "pgvector"
       \/ store_type = "hybrid" /\ primary_store \in Backends
    /\ last = NoCall
    /\ deleted = {}

\* FaissStore.add_embeddings called on the Faiss store.
FaissAdd ==
    /\ store_type = "faiss"
    /\ \E embeddings_data \in Batches, save \in CallerSaveOutcomes :
          /\ Len(documents) + Len(embeddings_data) <= MaxStored
          /\ \E r \in {FaissAddEmbeddings(FS, disk_index, disk_metadata,
                                          embeddings_data, save)} :
                 /\ SetFaiss(r.fs)
                 /\ disk_index' = r.disk_index
                 /\ disk_metadata' = r.disk_metadata
                 /\ last' = [NoCall EXCEPT !.op = "add",
                                !.attempted = {"faiss"},
                                !.failed = IF r.raised THEN {"faiss"} ELSE {},
                                !.outcome = Outcome(r.raised)]
                 /\ deleted' = deleted \ DocsOf(embeddings_data)
    /\ UNCHANGED <<table, store_type, primary_store, otherVars>>

\* FaissStore.delete_document called on the Faiss store.
FaissDelete ==
    /\ store_type = "faiss"
    /\ \E document_id \in DocumentIds :
          \E r \in {FaissDeleteDocument(FS, disk_index, disk_metadata, document_id)} :
              /\ SetFaiss(r.fs)
              /\ last' = [NoCall EXCEPT !.op = "delete",
                             !.doc = document_id,
                             !.attempted = {"faiss"},
                             !.failed = IF r.raised THEN {"faiss"} ELSE {},
                             !.removed = r.removed,
                             !.outcome = Outcome(r.raised)]
              /\ deleted' = IF r.raised THEN deleted ELSE deleted \cup {document_id}
    /\ UNCHANGED <<disk_index, disk_metadata, table, store_type, primary_store, otherVars>>

\* FaissStore.clear called on the Faiss store.
FaissClearAll ==
    /\ store_type = "faiss"
    /\ \E save \in CallerSaveOutcomes :
          \E r \in {FaissClear(FS, disk_index, disk_metadata, save)} :
              /\ SetFaiss(r.fs)
              /\ disk_index' = r.disk_index
              /\ disk_metadata' = r.disk_metadata
              /\ last' = [NoCall EXCEPT !.op = "clear",
                             !.attempted = {"faiss"},
                             !.failed = IF r.raised THEN {"faiss"} ELSE {},
                             !.outcome = Outcome(r.raised)]
    /\ UNCHANGED <<table, store_type, primary_store, deleted, otherVars>>

\* PgVectorStore.add_embeddings called on the pgvector store.
PgAdd ==
    /\ store_type = "pgvector"
    /\ \E embeddings_data \in Batches, failures \in 0..MaxFailures :
          \E r \in {PgAddEmbeddings(table, embeddings_data, failures)} :
              /\ table' = r.table
              /\ last' = [NoCall EXCEPT !.op = "add",
                             !.attempted = {"pgvector"},
                             !.failed = IF r.raised THEN {"pgvector"} ELSE {},
                             !.pg_failures = failures,
                             !.pg_attempts = r.attempts,
                             !.outcome = Outcome(r.raised)]
              /\ deleted' = deleted \ DocsOf(embeddings_data)
    /\ UNCHANGED <<faissVars, store_type, primary_store, otherVars>>

\* PgVectorStore.delete_document called on the pgvector store.
PgDelete ==
    /\ store_type = "pgvector"
    /\ \E document_id \in DocumentIds, failures \in 0..MaxFailures :
          \E r \in {PgDeleteDocument(table, document_id, failures)} :
              /\ table' = r.table
              /\ last' = [NoCall EXCEPT !.op = "delete",
                             !.doc = document_id,
                             !.attempted = {"pgvector"},
                             !.failed = IF r.raised THEN {"pgvector"} ELSE {},
                             !.pg_failures = failures,
                             !.pg_attempts = r.attempts,
                             !.removed = r.removed,
                             !.outcome = Outcome(r.raised)]
              /\ deleted' = IF r.raised THEN deleted ELSE deleted \cup {document_id}
    /\ UNCHANGED <<faissVars, store_type, primary_store, otherVars>>

\* similarity_search, get_document_chunks or get_stats called on the
\* pgvector store: the table is read, not changed.
PgReadCall ==
    /\ store_type = "pgvector"
    /\ \E op \in PgReadOps, failures \in 0..MaxFailures :
          \E r \in {PgRead(op, failures)} :
              last' = [NoCall EXCEPT !.op = op,
                          !.attempted = {"pgvector"},
                          !.failed = IF r.raised THEN {"pgvector"} ELSE {},
                          !.pg_failures = failures,
                          !.pg_attempts = r.attempts,
                          !.outcome = Outcome(r.raised)]
    /\ UNCHANGED <<faissVars, table, store_type, primary_store, deleted, otherVars>>

\* HybridVectorStore.add_embeddings.
HybridAdd ==
    /\ store_type = "hybrid"
    /\ \E embeddings_data \in Batches, failures \in 0..MaxFailures, save \in CallerSaveOutcomes :
          /\ Len(documents) + Len(embeddings_data) <= MaxStored
          /\ \E r \in {HybridAddEmbeddings(Stores, primary_store, embeddings_data,
                                           failures, save)} :
                 /\ SetFaiss(r.fs)
                 /\ disk_index' = r.disk_index
                 /\ disk_metadata' = r.disk_metadata
                 /\ table' = r.table
                 /\ last' = [NoCall EXCEPT !.op = "add",
                                !.attempted = r.attempted,
                                !.failed = r.failed,
                                !.outcome = r.outcome]
                 /\ deleted' = deleted \ DocsOf(embeddings_data)
    /\ UNCHANGED <<store_type, primary_store, otherVars>>

\* HybridVectorStore.delete_document.
HybridDelete ==
    /\ store_type = "hybrid"
    /\ \E document_id \in DocumentIds, failures \in 0..MaxFailures :
          \E r \in {HybridDeleteDocument(Stores, document_id, failures)} :
              /\ SetFaiss(r.fs)
              /\ table' = r.table
              /\ last' = [NoCall EXCEPT !.op = "delete",
                             !.doc = document_id,
                             !.attempted = r.attempted,
                             !.failed = r.failed,
                             !.removed = r.removed,
                             !.outcome = r.outcome]
              /\ deleted' = IF r.outcome.raised THEN deleted
                            ELSE deleted \cup {document_id}
    /\ UNCHANGED <<disk_index, disk_metadata, store_type, primary_store, otherVars>>

\* HybridVectorStore.similarity_search: the store is read; a Faiss store not
\* yet initialized is initialized by the call (lines 142-143).
HybridSearch ==
    /\ store_type = "hybrid"
    /\ \E filter_metadata \in Filters, use_faiss \in BOOLEAN :
          \E r \in {HybridSimilaritySearch(Stores, ChunkA1.embedding, MaxTopK, 0,
                                           filter_metadata, use_faiss)} :
              SetFaiss(r.fs)
    /\ UNCHANGED <<disk_index, disk_metadata, table, store_type, primary_store,
                   last, deleted, otherVars>>

StoreNext ==
    \/ FaissAdd
    \/ FaissDelete
    \/ FaissClearAll
    \/ PgAdd
    \/ PgDelete
    \/ PgReadCall
    \/ HybridAdd
    \/ HybridDelete
    \/ HybridSearch

SpecStore == StoreInit /\ [][StoreNext]_vars

\* ------------------------------------------------------------- SpecPersist
\* A Faiss store whose process may end and start again: the new process
\* builds a fresh FaissStore on the same index_path and initializes it from
\* the files the old one left.

\* FaissStore.__init__ (lines 28-33).
FreshFaissStore == [index |-> NoIndex, documents |-> <<>>, document_map |-> <<>>]

PersistInit ==
    /\ StoreInit
    /\ store_type = "faiss"

\* FaissStore(index_path) followed by initialize(); `after` keeps the call
\* the old process made last ("failed" when it raised).
Restart ==
    /\ store_type = "faiss"
    /\ \E r \in {FaissInitialize(FreshFaissStore, disk_index, disk_metadata)} :
          /\ SetFaiss(r.fs)
          /\ last' = [NoCall EXCEPT !.op = "restart",
                         !.attempted = {"faiss"},
                         !.failed = IF r.raised THEN {"faiss"} ELSE {},
                         !.outcome = Outcome(r.raised),
                         !.after = IF last.outcome.raised THEN "failed" ELSE last.op]
    /\ UNCHANGED <<disk_index, disk_metadata, table, store_type, primary_store,
                   deleted, otherVars>>

\* The queries and thresholds of the logged searches: a query along the
\* first stored direction and one between two of them, no threshold and a
\* threshold that equals a score.
SearchQueries == {q \in Queries : q.dir \in {0, 1}}
SearchThresholds == {0, 707}

\* FaissStore.similarity_search called on the Faiss store: the call
\* initializes a store that is not yet initialized (lines 142-143) and
\* returns its results or raises.
FaissSearchCall ==
    /\ store_type = "faiss"
    /\ \E query_embedding \in SearchQueries, top_k \in 1..MaxTopK,
          similarity_threshold \in SearchThresholds :
          \E init \in {EnsureInitialized(FS, disk_index, disk_metadata)} :
              \E r \in {IF init.raised
                         THEN [raised |-> TRUE, results |-> <<>>]
                         ELSE FaissSimilaritySearch(init.fs, query_embedding, top_k,
                                                    similarity_threshold)} :
                  /\ SetFaiss(init.fs)
                  /\ last' = [NoCall EXCEPT !.op = "search",
                                 !.attempted = {"faiss"},
                                 !.failed = IF r.raised THEN {"faiss"} ELSE {},
                                 !.outcome = Outcome(r.raised),
                                 !.args = [query_embedding |-> query_embedding,
                                           top_k |-> top_k,
                                           similarity_threshold |-> similarity_threshold],
                                 !.results = r.results]
    /\ UNCHANGED <<disk_index, disk_metadata, table, store_type, primary_store,
                   deleted, otherVars>>

PersistNext ==
    \/ FaissSearchCall
    \/ FaissAdd
    \/ FaissDelete
    \/ FaissClearAll
    \/ Restart

SpecPersist == PersistInit /\ [][PersistNext]_vars

\* ------------------------------------------------------------ SpecReranker
\* One HybridReranker (and the CrossEncoderReranker it holds) and its caller:
\* the candidates and what the cross-encoder will do are fixed at the start,
\* the weights may be set, and one entry point is called.

Candidates == UNION {[1..n -> CandidatePool] : n \in 0..MaxCandidates}
TopKs == {None} \cup {<<k>> : k \in 1..MaxTopK}

RerankerInit ==
    /\ ChunkerIdle
    /\ GeneratorIdle
    /\ PipelineIdle
    /\ StoreIdle
    /\ LaterIdle
    /\ chunk_size = 1
    /\ chunk_overlap = 0
    /\ batch_size = 1
    /\ rr_documents \in Candidates
    /\ rr_env \in [scores : [1..Len(rr_documents) -> CrossEncoderScores],
                   fails : SUBSET (1..MaxQueries)]
    /\ rr_weights = DefaultWeights
    /\ rr_out = [raised |-> FALSE, results |-> <<>>]
    /\ rr_pc = "idle"

rerankerRest == <<chunkerVars, configVars, generatorVars, pipelineVars, storeVars, laterVars>>

\* HybridReranker.set_weights with two positive weights.
CallSetWeights ==
    /\ rr_pc = "idle"
    /\ rr_weights = DefaultWeights
    /\ \E original_weight \in 1..MaxWeight, cross_encoder_weight \in 1..MaxWeight :
          rr_weights' = SetWeights(original_weight, cross_encoder_weight)
    /\ UNCHANGED <<rr_documents, rr_env, rr_out, rr_pc, rerankerRest>>

\* CrossEncoderReranker.rerank.
CallRerank ==
    /\ rr_pc = "idle"
    /\ \E top_k \in TopKs :
          rr_out' = CrossEncoderRerank(rr_documents, rr_env.scores,
                                       1 \in rr_env.fails, top_k)
    /\ rr_pc' = "rerank"
    /\ UNCHANGED <<rr_documents, rr_env, rr_weights, rerankerRest>>

\* CrossEncoderReranker.rerank_with_threshold.
CallRerankWithThreshold ==
    /\ rr_pc = "idle"
    /\ \E threshold \in CrossEncoderScores :
          rr_out' = RerankWithThreshold(rr_documents, rr_env.scores,
                                        1 \in rr_env.fails, threshold)
    /\ rr_pc' = "rerank_with_threshold"
    /\ UNCHANGED <<rr_documents, rr_env, rr_weights, rerankerRest>>

\* CrossEncoderReranker.batch_rerank.
CallBatchRerank ==
    /\ rr_pc = "idle"
    /\ rr_out' = BatchRerank(MaxQueries, rr_documents, rr_env.scores, rr_env.fails)
    /\ rr_pc' = "batch_rerank"
    /\ UNCHANGED <<rr_documents, rr_env, rr_weights, rerankerRest>>

\* HybridReranker.rerank.
CallHybridRerank ==
    /\ rr_pc = "idle"
    /\ \E top_k \in TopKs :
          rr_out' = HybridRerank(rr_documents, rr_env.scores, 1 \in rr_env.fails,
                                 rr_weights, top_k)
    /\ rr_pc' = "hybrid_rerank"
    /\ UNCHANGED <<rr_documents, rr_env, rr_weights, rerankerRest>>

RerankerNext ==
    \/ CallSetWeights
    \/ CallRerank
    \/ CallRerankWithThreshold
    \/ CallBatchRerank
    \/ CallHybridRerank

SpecReranker == RerankerInit /\ [][RerankerNext]_vars

\* --------------------------------------------------------------- SpecCrash

\* No call is made between a crash and the next process's initialize.
ProcessRuns == last.op # "crash"

\* add_embeddings and delete_document called on the store of a running
\* process.
AddWhileRunning == ProcessRuns /\ FaissAdd
DeleteWhileRunning == ProcessRuns /\ FaissDelete

\* The process dies inside the _save_index of an add_embeddings call, after
\* faiss.write_index (line 74) and before the metadata file is opened
\* (line 77): the index file is rewritten, the metadata file is the old
\* one, and the store object is gone with the process.
CrashInSave ==
    /\ store_type = "faiss"
    /\ ProcessRuns
    /\ \E embeddings_data \in Batches :
          \E init \in {EnsureInitialized(FS, disk_index, disk_metadata)} :
              /\ ~init.raised
              /\ Len(init.fs.index.xb) + Len(embeddings_data) <= MaxStored
              /\ \E sv \in {SaveIndex(AppendEmbeddings(init.fs, embeddings_data),
                                       disk_index, disk_metadata,
                                       "metadata_write_fails")} :
                    /\ disk_index' = sv.disk_index
                    /\ disk_metadata' = sv.disk_metadata
    /\ SetFaiss(FreshFaissStore)
    /\ last' = [NoCall EXCEPT !.op = "crash", !.attempted = {"faiss"}]
    /\ UNCHANGED <<table, store_type, primary_store, deleted, otherVars>>

CrashNext ==
    \/ AddWhileRunning
    \/ DeleteWhileRunning
    \/ CrashInSave
    \/ Restart

SpecCrash == PersistInit /\ [][CrashNext]_vars

\* -------------------------------------------------------------- SpecConfig

\* The str values of a configuration: text, one reference, or a reference
\* with text before or after it, of at most MaxStrLen characters.
Texts == {<<>>, <<"t">>}
Strings ==
    {s \in {pre \o mid \o post :
               pre \in Texts, post \in Texts,
               mid \in {<<>>, Ref("V"), Ref("U"), <<"$", "{", "V">>}} :
        Len(s) <= MaxStrLen}

\* Values nested MaxDepth deep: a str, a list of up to MaxItems values, or a
\* dict with the key "description".
RECURSIVE Values(_)
Values(depth) ==
    IF depth = 0
    THEN {Str(s) : s \in Strings}
    ELSE LET inner == Values(depth - 1)
         IN  inner
             \cup {List(items) : items \in UNION {[1..n -> inner] : n \in 1..MaxItems}}
             \cup {Dict([k \in {"description"} |-> v]) : v \in inner}

\* os.environ: V is set to "tv" or not set; U is never set.
Environs == {<<>>, [k \in {<<"V">>} |-> <<"t", "v">>]}

loaderRest == <<chunkerVars, configVars, generatorVars, pipelineVars, storeVars, rerankerVars, writerVars, poolVars, workflowVars, unifiedVars>>

ConfigInit ==
    /\ ChunkerIdle
    /\ GeneratorIdle
    /\ PipelineIdle
    /\ StoreIdle
    /\ RerankerIdle
    /\ UnifiedIdle
    /\ chunk_size = 1
    /\ chunk_overlap = 0
    /\ batch_size = 1
    /\ WriterIdle
    /\ PoolIdle
    /\ WorkflowIdle
    /\ config_data \in Values(MaxDepth)
    /\ environ \in Environs
    /\ substituted = Str(<<>>)
    /\ loader_pc = "called"

\* config_loader._substitute_env_vars(data).
CallSubstituteEnvVars ==
    /\ loader_pc = "called"
    /\ substituted' = SubstituteEnvVars(config_data, environ)
    /\ loader_pc' = "returned"
    /\ UNCHANGED <<config_data, environ, loaderRest>>

ConfigNext == CallSubstituteEnvVars

SpecConfig == ConfigInit /\ [][ConfigNext]_vars

\* ------------------------------------------------------------- SpecWriters
\* FaissStore's methods are plain functions that take no lock: calls made
\* from several threads on one store interleave between their statements.

Writers == 1..MaxWriters

\* The stores the threads start on: initialized, empty or holding one chunk,
\* with the files written by the add that stored it.
InitialBatches == {<<>>, <<ChunkA1>>, <<ChunkB2>>}

\* A thread's call and locals; pc is the statement it executes next.
AddCall(embeddings_data) ==
    [op |-> "add", pc |-> "index_add", embeddings_data |-> embeddings_data,
     document_id |-> "", start_idx |-> 0, chunks_to_delete |-> {}, raised |-> FALSE]
DeleteCall(document_id) ==
    [op |-> "delete", pc |-> "scan", embeddings_data |-> <<>>,
     document_id |-> document_id, start_idx |-> 0, chunks_to_delete |-> {},
     raised |-> FALSE]

writerRest == <<chunkerVars, configVars, generatorVars, pipelineVars, rerankerVars, loaderVars, poolVars, workflowVars, unifiedVars>>
storeRest == <<table, store_type, primary_store, last, deleted>>

WritersInit ==
    /\ ChunkerIdle
    /\ GeneratorIdle
    /\ PipelineIdle
    /\ RerankerIdle
    /\ LoaderIdle
    /\ PoolIdle
    /\ WorkflowIdle
    /\ UnifiedIdle
    /\ chunk_size = 1
    /\ chunk_overlap = 0
    /\ batch_size = 1
    /\ \E stored \in InitialBatches :
          LET fs == AppendEmbeddings(CreateIndex, stored)
          IN  /\ index = fs.index
              /\ documents = fs.documents
              /\ document_map = fs.document_map
              /\ disk_index = [exists |-> TRUE, data |-> fs.index.xb]
              /\ disk_metadata = [exists |-> TRUE, data |-> fs.documents]
    /\ table = <<>>
    /\ store_type = "faiss"
    /\ primary_store = "faiss"
    /\ last = NoCall
    /\ deleted = {}
    /\ writer \in [Writers -> {AddCall(b) : b \in Batches}
                               \cup {DeleteCall(d) : d \in DocumentIds}]

\* self.index.add(embeddings_array) (line 116).
AddIndexAdd(w) ==
    /\ writer[w].pc = "index_add"
    /\ index' = [index EXCEPT !.xb = @ \o [k \in 1..Len(writer[w].embeddings_data) |->
                                  Normalize(writer[w].embeddings_data[k].embedding)]]
    /\ writer' = [writer EXCEPT ![w].pc = "start_idx"]
    /\ UNCHANGED <<documents, document_map, disk_index, disk_metadata, storeRest, writerRest>>

\* start_idx = len(self.documents) (line 119).
AddStartIdx(w) ==
    /\ writer[w].pc = "start_idx"
    /\ writer' = [writer EXCEPT ![w].pc = "extend", ![w].start_idx = Len(documents)]
    /\ UNCHANGED <<faissVars, storeRest, writerRest>>

\* self.documents.extend(new_documents) (line 120).
AddExtend(w) ==
    /\ writer[w].pc = "extend"
    /\ documents' = documents \o [k \in 1..Len(writer[w].embeddings_data) |->
                                    FaissDocument(writer[w].embeddings_data[k])]
    /\ writer' = [writer EXCEPT ![w].pc = "map"]
    /\ UNCHANGED <<index, document_map, disk_index, disk_metadata, storeRest, writerRest>>

\* for i, doc in enumerate(new_documents): self.document_map[...] = ...
\* (lines 122-123).
AddMap(w) ==
    /\ writer[w].pc = "map"
    /\ document_map' = ExtendDocumentMap(document_map, writer[w].start_idx,
                            [k \in 1..Len(writer[w].embeddings_data) |->
                                FaissDocument(writer[w].embeddings_data[k])])
    /\ writer' = [writer EXCEPT ![w].pc = "save"]
    /\ UNCHANGED <<index, documents, disk_index, disk_metadata, storeRest, writerRest>>

\* self._save_index(); return True (lines 126-129).
AddSave(w) ==
    /\ writer[w].pc = "save"
    /\ \E sv \in {SaveIndex(FS, disk_index, disk_metadata, "saved")} :
          /\ disk_index' = sv.disk_index
          /\ disk_metadata' = sv.disk_metadata
    /\ writer' = [writer EXCEPT ![w].pc = "done"]
    /\ UNCHANGED <<index, documents, document_map, storeRest, writerRest>>

\* The positions of document_id's chunks (lines 203-207); return True when
\* there is none (lines 209-211).
DeleteScan(w) ==
    /\ writer[w].pc = "scan"
    /\ LET found == {i \in 0..(Len(documents) - 1) :
                       documents[i + 1].document_id = writer[w].document_id}
       IN  writer' = [writer EXCEPT ![w].chunks_to_delete = found,
                                    ![w].pc = IF found = {} THEN "done" ELSE "del"]
    /\ UNCHANGED <<faissVars, storeRest, writerRest>>

\* for i in sorted(chunks_to_delete, reverse=True): del self.documents[i]
\* (lines 214-215); the highest position is deleted first and raises
\* IndexError when the list has become shorter.
DeleteDel(w) ==
    /\ writer[w].pc = "del"
    /\ IF \E i \in writer[w].chunks_to_delete : i >= Len(documents)
       THEN /\ writer' = [writer EXCEPT ![w].pc = "done", ![w].raised = TRUE]
            /\ UNCHANGED documents
       ELSE /\ documents' = SelectPositions(documents,
                                {i \in 0..(Len(documents) - 1) :
                                    i \notin writer[w].chunks_to_delete})
            /\ writer' = [writer EXCEPT ![w].pc = "rebuild"]
    /\ UNCHANGED <<index, document_map, disk_index, disk_metadata, storeRest, writerRest>>

\* self._rebuild_index(); return True (lines 218-221).
DeleteRebuild(w) ==
    /\ writer[w].pc = "rebuild"
    /\ SetFaiss(RebuildIndex(documents))
    /\ writer' = [writer EXCEPT ![w].pc = "done"]
    /\ UNCHANGED <<disk_index, disk_metadata, storeRest, writerRest>>

WritersNext ==
    \E w \in Writers :
        \/ AddIndexAdd(w)
        \/ AddStartIdx(w)
        \/ AddExtend(w)
        \/ AddMap(w)
        \/ AddSave(w)
        \/ DeleteScan(w)
        \/ DeleteDel(w)
        \/ DeleteRebuild(w)

SpecWriters == WritersInit /\ [][WritersNext]_vars

\* ---------------------------------------------------------------- SpecPool
\* Tasks of one event loop calling one PgVectorStore whose pool is not yet
\* initialized.  A task runs without interruption from one await to the
\* next: asyncpg.create_pool and the query are the points where it waits.

Tasks == 1..MaxTasks

\* The methods that begin with `if not self.pool: await self.initialize()`.
PoolOps == {"add_embeddings", "similarity_search", "get_document_chunks",
            "delete_document", "get_stats"}
\* The methods under @retry (lines 54 and 96).
RetriedOps == {"add_embeddings", "similarity_search"}

poolRest == <<chunkerVars, configVars, generatorVars, pipelineVars, storeVars, rerankerVars, loaderVars, writerVars, workflowVars, unifiedVars>>

PoolInit ==
    /\ ChunkerIdle
    /\ GeneratorIdle
    /\ PipelineIdle
    /\ StoreIdle
    /\ RerankerIdle
    /\ LoaderIdle
    /\ WriterIdle
    /\ WorkflowIdle
    /\ UnifiedIdle
    /\ chunk_size = 1
    /\ chunk_overlap = 0
    /\ batch_size = 1
    /\ pool = 0
    /\ created = 0
    /\ caller \in [Tasks -> {[op |-> o, pc |-> "called", attempt |-> 1, using |-> 0] :
                                o \in PoolOps}]

\* The method is entered (or entered again by the retry): with a pool it goes
\* on to self.pool.acquire() and waits in its query, without one it calls
\* initialize and waits in asyncpg.create_pool (lines 57-61, 37).
EnterMethod(t) ==
    /\ caller[t].pc = "called"
    /\ caller' = [caller EXCEPT ![t] =
                     IF pool = 0
                     THEN [@ EXCEPT !.pc = "create_pool"]
                     ELSE [@ EXCEPT !.pc = "query", !.using = pool]]
    /\ UNCHANGED <<pool, created, poolRest>>

\* create_pool returns a new pool: self.pool = it (line 37), initialize
\* returns, and the method acquires a connection from self.pool (line 61).
PoolCreated(t) ==
    /\ caller[t].pc = "create_pool"
    /\ created' = created + 1
    /\ pool' = created + 1
    /\ caller' = [caller EXCEPT ![t].pc = "query", ![t].using = created + 1]
    /\ UNCHANGED poolRest

\* create_pool raises: initialize re-raises (lines 44-46); a method under
\* @retry is called again until its attempts are used up.
PoolFailed(t) ==
    /\ caller[t].pc = "create_pool"
    /\ caller' = [caller EXCEPT ![t] =
                     IF caller[t].op \in RetriedOps /\ caller[t].attempt < PgStopAfterAttempt
                     THEN [@ EXCEPT !.pc = "called", !.attempt = @ + 1]
                     ELSE [@ EXCEPT !.pc = "raised"]]
    /\ UNCHANGED <<pool, created, poolRest>>

\* The query is answered and the connection goes back to its pool.
QueryDone(t) ==
    /\ caller[t].pc = "query"
    /\ caller' = [caller EXCEPT ![t].pc = "returned", ![t].using = 0]
    /\ UNCHANGED <<pool, created, poolRest>>

PoolNext ==
    \E t \in Tasks :
        \/ EnterMethod(t)
        \/ PoolCreated(t)
        \/ PoolFailed(t)
        \/ QueryDone(t)

SpecPool == PoolInit /\ [][PoolNext]_vars

\* ------------------------------------------------------------ SpecWorkflow
\* One execute_workflow call and the cancel_execution calls made for its
\* execution id from other tasks of the event loop.  execute_workflow runs
\* without interruption except while it waits in tool.execute (line 230):
\* the retrieval and llm_call steps return at once (lines 206-216).

StepTypes == {"retrieval", "llm_call", "tool_call", "other"}

RECURSIVE RunSteps(_, _)
\* _execute_workflow_steps (lines 171-191) from step i on, up to the next
\* point where it waits: the end of the steps, a tool call, or the
\* ValueError of an unknown step type (line 204).
RunSteps(step_types, i) ==
    IF i > Len(step_types)
    THEN [pc |-> "returned", step_index |-> i, raised |-> FALSE]
    ELSE IF step_types[i] = "tool_call"
         THEN [pc |-> "tool", step_index |-> i, raised |-> FALSE]
         ELSE IF step_types[i] \in {"retrieval", "llm_call"}
              THEN RunSteps(step_types, i + 1)
              ELSE [pc |-> "returned", step_index |-> i, raised |-> TRUE]

workflowRest == <<chunkerVars, configVars, generatorVars, pipelineVars, storeVars, rerankerVars, loaderVars, writerVars, poolVars, unifiedVars>>

WorkflowInit ==
    /\ ChunkerIdle
    /\ GeneratorIdle
    /\ PipelineIdle
    /\ StoreIdle
    /\ RerankerIdle
    /\ LoaderIdle
    /\ WriterIdle
    /\ PoolIdle
    /\ UnifiedIdle
    /\ chunk_size = 1
    /\ chunk_overlap = 0
    /\ batch_size = 1
    /\ steps \in UNION {[1..n -> StepTypes] : n \in 0..MaxSteps}
    /\ step_index = 0
    /\ workflow_pc = "called"
    /\ status = "absent"
    /\ cancel_result = "none"

\* What execute_workflow does when its steps have ended or raised: the
\* stored result is set to COMPLETED (line 89), or a new FAILED result is
\* stored under the execution id (lines 100-110).
StatusAfter(run, current) ==
    IF run.raised THEN "failed"
    ELSE IF run.pc = "returned" THEN "completed"
    ELSE current

\* execute_workflow is called (lines 57-83): the configuration is loaded, or
\* load_workflow raises; the RUNNING result is stored and the steps run up
\* to the first tool call.
ExecuteWorkflow ==
    /\ workflow_pc = "called"
    /\ \E loaded \in BOOLEAN :
          IF ~loaded
          THEN /\ status' = "failed"
               /\ workflow_pc' = "returned"
               /\ step_index' = 0
          ELSE \E run \in {RunSteps(steps, 1)} :
                  /\ status' = StatusAfter(run, "running")
                  /\ workflow_pc' = run.pc
                  /\ step_index' = run.step_index
    /\ UNCHANGED <<steps, cancel_result, workflowRest>>

\* tool.execute returns or raises; execute_workflow goes on to the next
\* tool call or to its end (lines 83-112).
ToolExecuted ==
    /\ workflow_pc = "tool"
    /\ \E tool_raised \in BOOLEAN :
          IF tool_raised
          THEN /\ status' = "failed"
               /\ workflow_pc' = "returned"
               /\ UNCHANGED step_index
          ELSE \E run \in {RunSteps(steps, step_index + 1)} :
                  /\ status' = StatusAfter(run, status)
                  /\ workflow_pc' = run.pc
                  /\ step_index' = run.step_index
    /\ UNCHANGED <<steps, cancel_result, workflowRest>>

\* cancel_execution(execution_id) (lines 270-277).
CancelExecution ==
    /\ workflow_pc \in {"called", "tool", "returned"}
    /\ IF status = "running"
       THEN /\ status' = "cancelled"
            /\ cancel_result' = "true"
       ELSE /\ cancel_result' = "false"
            /\ UNCHANGED status
    /\ UNCHANGED <<steps, step_index, workflow_pc, workflowRest>>

WorkflowNext == ExecuteWorkflow \/ ToolExecuted \/ CancelExecution

SpecWorkflow == WorkflowInit /\ [][WorkflowNext]_vars

\* -------------------------------------------------------------- SpecSwitch
\* One UnifiedVectorStore: switch_store and add_embeddings calls.

DefaultFaissIndexPath == "./data/faiss_index"

\* The connection strings and index paths callers pass.
ArgumentValues == {"a", "b", "c"}

\* The keyword arguments of a switch_store call: any of the two keys, each
\* with one of the values.
KwargKeys == {"pgvector_connection", "faiss_index_path"}
Kwargs == UNION {[keys -> ArgumentValues] : keys \in SUBSET KwargKeys}

\* The store types callers ask for; "redis" is not supported.
StoreTypes == {"pgvector", "faiss", "redis"}

PgStoreObject(connection_string) == [class |-> "PgVectorStore", argument |-> connection_string]
FaissStoreObject(index_path) == [class |-> "FaissStore", argument |-> index_path]

\* UnifiedVectorStore(store_type, ...) with arguments __init__ accepts
\* (lines 52-71): a pgvector store with its connection string, or a Faiss
\* store with a path or the default path.
Constructed ==
    {[store_type |-> "pgvector", store |-> PgStoreObject(c)] : c \in ArgumentValues}
    \cup {[store_type |-> "faiss", store |-> FaissStoreObject(path)] :
             path \in {DefaultFaissIndexPath} \cup ArgumentValues}

\* switch_store(new_store_type, **kwargs) (lines 145-165): store_type is
\* assigned (line 155) before the new store is made or the call raises.
SwitchStoreResult(current, new_store_type, kwargs) ==
    IF new_store_type = "pgvector"
    THEN IF "pgvector_connection" \notin DOMAIN kwargs
         THEN [raised |-> TRUE, store_type |-> new_store_type, store |-> current]
         ELSE [raised |-> FALSE, store_type |-> new_store_type,
               store |-> PgStoreObject(kwargs["pgvector_connection"])]
    ELSE IF new_store_type = "faiss"
         THEN [raised |-> FALSE, store_type |-> new_store_type,
               store |-> FaissStoreObject(IF "faiss_index_path" \in DOMAIN kwargs
                                          THEN kwargs["faiss_index_path"]
                                          ELSE DefaultFaissIndexPath)]
         ELSE [raised |-> TRUE, store_type |-> new_store_type, store |-> current]

\* add_embeddings (lines 89-94): awaits self.store.add_embeddings when
\* store_type is "pgvector" and calls it plainly otherwise.  Awaiting the
\* bool of a FaissStore raises TypeError; the plain call of a PgVectorStore
\* returns its coroutine, which never runs.
UnifiedAddOutcome(type, held) ==
    IF type = "pgvector"
    THEN IF held.class = "PgVectorStore" THEN "added" ELSE "raised"
    ELSE IF held.class = "FaissStore" THEN "added" ELSE "coroutine"

unifiedRest == <<chunkerVars, configVars, generatorVars, pipelineVars, faissVars, table, primary_store, last, deleted, rerankerVars, loaderVars, writerVars, poolVars, workflowVars>>

SwitchInit ==
    /\ ChunkerIdle
    /\ GeneratorIdle
    /\ PipelineIdle
    /\ RerankerIdle
    /\ LoaderIdle
    /\ WriterIdle
    /\ PoolIdle
    /\ WorkflowIdle
    /\ chunk_size = 1
    /\ chunk_overlap = 0
    /\ batch_size = 1
    /\ index = NoIndex
    /\ documents = <<>>
    /\ document_map = <<>>
    /\ disk_index = NoFile
    /\ disk_metadata = NoFile
    /\ table = <<>>
    /\ primary_store = "pgvector"
    /\ last = NoCall
    /\ deleted = {}
    /\ \E u \in Constructed :
          /\ store_type = u.store_type
          /\ store = u.store
    /\ unified_last = NoUnifiedCall

SwitchStore ==
    /\ \E new_store_type \in StoreTypes, kwargs \in Kwargs :
          \E r \in {SwitchStoreResult(store, new_store_type, kwargs)} :
              /\ store_type' = r.store_type
              /\ store' = r.store
              /\ unified_last' = [op |-> "switch_store", new_store_type |-> new_store_type,
                                  kwargs |-> kwargs,
                                  outcome |-> IF r.raised THEN "raised" ELSE "returned"]
    /\ UNCHANGED unifiedRest

UnifiedAdd ==
    /\ unified_last' = [NoUnifiedCall EXCEPT !.op = "add_embeddings",
                           !.outcome = UnifiedAddOutcome(store_type, store)]
    /\ UNCHANGED <<store_type, store, unifiedRest>>

SwitchNext == SwitchStore \/ UnifiedAdd

SpecSwitch == SwitchInit /\ [][SwitchNext]_vars

\* ------------------------------------------------------------------ claims

\* C1: for chunk_size > 0 and 0 <= chunk_overlap < chunk_size,
\* chunk_document terminates and the start offsets of successive chunks are
\* strictly increasing.  Stated on every prefix of a run: each chunk starts
\* after the one before it, and (so) no run makes more passes than the
\* content has tokens.
C1_StartsStrictlyIncreasing ==
    /\ \A i \in 1..(Len(chunks) - 1) : chunks[i].start < chunks[i + 1].start
    /\ Len(chunks) <= tokens

\* The batch that holds text i (1-based) starts at this offset.
BatchOffsetOf(i, bsize) == ((i - 1) \div bsize) * bsize

\* C7: generate_embeddings_batch returns exactly one result per input text
\* in input order; result i is the degraded value exactly when the batch
\* holding text i failed and the single call for text i failed after its
\* retries, and every other result is the text's own embedding and count.
C7_BatchDegradesExactlyFailedItems ==
    gen_pc = "batch_done" =>
        /\ ~gen_out.raised
        /\ Len(gen_out.results) = Len(gen_texts)
        /\ \A i \in 1..Len(gen_texts) :
              LET lost == /\ BatchOffsetOf(i, batch_size) \in gen_env.batch_fails
                          /\ gen_env.item_failures[i] >= 3
              IN  /\ lost => gen_out.results[i] = [embedding |-> <<>>, token_count |-> 0]
                  /\ ~lost => gen_out.results[i] =
                                 [embedding |-> Embed(gen_texts[i]),
                                  token_count |-> CountTokens(gen_texts[i])]

\* A batch call over several batches in which one batch succeeded, one
\* failed with an item recovered by its single call and an item lost.
C7_Witness ==
    /\ gen_pc = "batch_done"
    /\ Len(gen_texts) >= 3
    /\ gen_env.batch_fails # {}
    /\ gen_env.batch_fails # BatchOffsets(Len(gen_texts), batch_size)
    /\ \E i, j \in 1..Len(gen_texts) :
          /\ BatchOffsetOf(i, batch_size) \in gen_env.batch_fails
          /\ BatchOffsetOf(j, batch_size) \in gen_env.batch_fails
          /\ gen_out.results[i] = DegradedResult
          /\ gen_out.results[j] # DegradedResult

\* Every embedding request made for document d failed: each batch request
\* and, for each chunk, the single request with all its retries.
EmbeddingFailsFor(d) ==
    /\ task[d].chunks > 0
    /\ task[d].env.batch_fails = BatchOffsets(task[d].chunks, batch_size)
    /\ \A k \in 1..task[d].chunks : task[d].env.item_failures[k] >= 3

\* No embedding request made for document d failed.
EmbeddingWorksFor(d) ==
    /\ task[d].chunks > 0
    /\ task[d].env.batch_fails = {}

\* C6: when the embedding capability fails for exactly one document of a
\* batch of non-empty documents, process_documents_batch returns one list per
\* document in input order, empty for the failing document and non-empty for
\* every other one.
C6_FailedDocumentListIsEmpty ==
    pipeline_pc = "returned" =>
        \A d \in 1..Len(doc_batch) :
            ( /\ \A e \in 1..Len(doc_batch) : doc_batch[e] > 0
              /\ EmbeddingFailsFor(d)
              /\ \A e \in 1..Len(doc_batch) : e # d => EmbeddingWorksFor(e) )
            => /\ Len(valid_results) = Len(doc_batch)
               /\ valid_results[d] = <<>>
               /\ \A e \in 1..Len(doc_batch) : e # d => valid_results[e] # <<>>

\* C8: generate_embedding invokes the capability at most 3 times for one
\* text, returns the first successful response, and ends with an error
\* (no value) when all attempts fail.
C8_SingleCallBoundedRetry ==
    gen_pc = "single_done" =>
        LET failures == gen_env.item_failures[1]
        IN  /\ gen_out.calls <= 3
            /\ failures < 3 =>
                  /\ ~gen_out.raised
                  /\ gen_out.response = failures + 1
                  /\ gen_out.calls = failures + 1
                  /\ gen_out.results = <<[embedding |-> Embed(gen_texts[1]),
                                          token_count |-> CountTokens(gen_texts[1])]>>
            /\ failures >= 3 =>
                  /\ gen_out.raised
                  /\ gen_out.results = <<>>

\* A single call whose three requests all failed.
C8_Witness ==
    /\ gen_pc = "single_done"
    /\ gen_out.calls = 3
    /\ gen_out.raised

\* The document ids of the results of a search that was answered.
ResultDocuments(results) == {results[n].document_id : n \in 1..Len(results)}

\* Document d is absent from the Faiss backend: get_document_chunks(d) is
\* empty and no search, for any query, top_k and threshold, returns one of
\* its chunks.
GoneFromFaiss(d) ==
    LET fs == EnsureInitialized(FS, disk_index, disk_metadata).fs
    IN  /\ FaissGetDocumentChunks(fs, d) = <<>>
        /\ \A q \in Queries, k \in 1..MaxTopK, t \in Thresholds :
              d \notin ResultDocuments(FaissSimilaritySearch(fs, q, k, t).results)

\* Document d is absent from the pgvector backend, in the same sense.
GoneFromPgVector(d) ==
    /\ PgGetDocumentChunks(table, d) = <<>>
    /\ \A q \in Queries, k \in 1..MaxTopK, t \in Thresholds :
          d \notin ResultDocuments(PgSimilaritySearch(table, q, k, t))

\* C2: once delete_document(D) has returned successfully, on any store
\* variant, and until chunks of D are added again, get_document_chunks(D) is
\* empty on every backend in use and no similarity_search result holds a
\* chunk whose document_id is D.
C2_DeletedDocumentIsGone ==
    \A d \in deleted :
        /\ store_type \in {"faiss", "hybrid"} => GoneFromFaiss(d)
        /\ store_type \in {"pgvector", "hybrid"} => GoneFromPgVector(d)

\* A hybrid store whose delete_document returned after removing chunks, with
\* chunks of another document still stored.
C2_Witness ==
    /\ store_type = "hybrid"
    /\ last.op = "delete"
    /\ ~last.outcome.raised
    /\ last.removed > 0
    /\ last.doc \in deleted
    /\ table # <<>>

\* Chunk n of the documents array before the call is found by a search after
\* it, with as many results asked for as the index may hold.
StillSearchable(n) ==
    \E q \in Queries :
        \E m \in 1..Len(FaissSimilaritySearch(FS', q, MaxStored, 0).results) :
            /\ FaissSimilaritySearch(FS', q, MaxStored, 0).results[m].chunk_id
                  = documents[n].chunk_id
            /\ FaissSimilaritySearch(FS', q, MaxStored, 0).results[m].document_id
                  = documents[n].document_id

\* C3: FaissStore.delete_document(D) removes only the chunks of D: the chunks
\* of every other document that were in the index before the call are still
\* returned by get_document_chunks and still found by similarity_search
\* after it.
C3_DeleteKeepsOtherDocuments ==
    [][ (FaissDelete /\ ~last'.outcome.raised) =>
            /\ \A d \in DocumentIds \ {last'.doc} :
                  FaissGetDocumentChunks(FS', d) = FaissGetDocumentChunks(FS, d)
            /\ \A n \in 1..Len(documents) :
                  documents[n].document_id # last'.doc => StillSearchable(n) ]_vars

\* C4: every add_embeddings and delete_document call of the hybrid store is
\* submitted to both backends, also when the backend tried first fails.
C4_BothBackendsAttempted ==
    (store_type = "hybrid" /\ last.op \in {"add", "delete"})
        => last.attempted = Backends

\* The latest hybrid call succeeded on one backend and failed on the other.
PartialFailure(call) ==
    /\ call.op \in {"add", "delete"}
    /\ call.attempted = Backends
    /\ Cardinality(call.failed) = 1

\* The backend that succeeded in the step holds what its own call leaves.
SucceededBackendKept ==
    /\ ("pgvector" \notin last'.failed /\ last'.op = "add")
          => \E data \in Batches : table' = ExecuteMany(table, data)
    /\ ("pgvector" \notin last'.failed /\ last'.op = "delete")
          => table' = DeleteRows(table, last'.doc)
    /\ ("faiss" \notin last'.failed /\ last'.op = "add")
          => \E data \in Batches :
                FS' = AppendEmbeddings(
                          EnsureInitialized(FS, disk_index, disk_metadata).fs, data)

\* C5: when a write or delete of the hybrid store succeeds on one backend and
\* fails on the other, the outcome given to the caller names the backend
\* that failed, and the backend that succeeded is not rolled back.
C5_PartialFailureNamesBackend ==
    [][ ((HybridAdd \/ HybridDelete) /\ PartialFailure(last')) =>
            /\ last'.outcome.named = last'.failed
            /\ SucceededBackendKept ]_vars

\* C9: every network operation of the pgvector store is retried on a
\* transient connectivity error, a bounded number of times, and the error
\* reaches the caller when every attempt failed.
C9_EveryOperationRetried ==
    (store_type = "pgvector" /\ last.op # "none") =>
        /\ last.pg_attempts <= 3
        /\ last.pg_failures >= 1 => last.pg_attempts >= 2
        /\ last.pg_failures >= last.pg_attempts => last.outcome.raised

\* C10: in every state of FaissStore the id-to-position map agrees with the
\* documents array: the chunk_id at every position maps to that position,
\* and the map has no entry for a chunk_id that is not in the array.
C10_DocumentMapAgrees ==
    store_type \in {"faiss", "hybrid"} =>
        /\ \A i \in 0..(Len(documents) - 1) :
              /\ documents[i + 1].chunk_id \in DOMAIN document_map
              /\ document_map[documents[i + 1].chunk_id] = i
        /\ \A c \in DOMAIN document_map :
              \E i \in 0..(Len(documents) - 1) : documents[i + 1].chunk_id = c

\* The chunk ids of a search's results, in rank order.
RankedIds(results) == [n \in 1..Len(results) |-> results[n].chunk_id]

UpsertBatches == Batches \cup {<<ChunkA1, ChunkB1>>, <<ChunkB1, ChunkA1>>}

\* The record of embeddings_data that is the latest one for chunk id c.
LatestFor(embeddings_data, c) ==
    embeddings_data[CHOOSE k \in 1..Len(embeddings_data) :
        /\ embeddings_data[k].chunk_id = c
        /\ \A j \in 1..Len(embeddings_data) :
              embeddings_data[j].chunk_id = c => j <= k]

\* C12: PgVectorStore.add_embeddings is an idempotent upsert keyed by
\* chunk_id.  On every table the store reaches and for every batch, an add
\* that is answered leaves, for each chunk_id of the batch, the one row of
\* that id with the content, vector and metadata of the latest record for
\* it, leaves every other row as it was, and adding the same batch again
\* changes no row.
C12_AddIsIdempotentUpsert ==
    store_type = "pgvector" =>
        \A embeddings_data \in UpsertBatches :
            LET once  == PgAddEmbeddings(table, embeddings_data, 0)
                twice == PgAddEmbeddings(once.table, embeddings_data, 0)
                ids   == {embeddings_data[k].chunk_id : k \in 1..Len(embeddings_data)}
            IN  /\ ~once.raised
                /\ DOMAIN once.table = (DOMAIN table) \cup ids
                /\ \A c \in ids :
                      /\ once.table[c].content = LatestFor(embeddings_data, c).content
                      /\ once.table[c].embedding = LatestFor(embeddings_data, c).embedding
                      /\ once.table[c].metadata = LatestFor(embeddings_data, c).metadata
                /\ \A c \in (DOMAIN table) \ ids : once.table[c] = table[c]
                /\ ~twice.raised
                /\ twice.table = once.table

\* A table in which an add has overwritten a row: chunk 1, first added under
\* document A, now carries the content of the record added for it later.
C12_Witness ==
    /\ store_type = "pgvector"
    /\ last.op = "add"
    /\ ~last.outcome.raised
    /\ 1 \in DOMAIN table
    /\ table[1].document_id = "A"
    /\ table[1].content = "b1"
    /\ table[1].metadata = ChunkB1.metadata

\* C13: a similarity_search of the hybrid store that carries a non-empty
\* metadata filter is served by the pgvector backend, so every result
\* satisfies every pair of the filter; a call without a filter is served by
\* the Faiss index.  The calls are made with use_faiss left at its default.
C13_FilteredSearchUsesPgVector ==
    store_type = "hybrid" =>
        \A q \in Queries, k \in 1..MaxTopK, t \in Thresholds, f \in Filters :
            LET r == HybridSimilaritySearch(Stores, q, k, t, f, UseFaissDefault)
            IN  /\ (f # NoFilter) =>
                      /\ r.backend = "pgvector"
                      /\ \A n \in 1..Len(r.results) :
                            MatchesFilter(r.results[n].metadata, f)
                /\ (f = NoFilter) => r.backend = "faiss"

\* C14: CrossEncoderReranker.rerank returns the candidates sorted by
\* cross-encoder score descending, each with its own score, and each
\* result's rank_change is its zero-based position in the input minus its
\* zero-based position in the output; without top_k every candidate is
\* returned once.
C14_RankChangeIsInputMinusOutput ==
    (rr_pc = "rerank" /\ ~rr_out.raised) =>
        /\ \A n \in 1..(Len(rr_out.results) - 1) :
              rr_out.results[n].rerank_score >= rr_out.results[n + 1].rerank_score
        /\ \A n \in 1..Len(rr_out.results) :
              /\ rr_out.results[n].rerank_score
                    = rr_env.scores[rr_out.results[n].input_index + 1]
              /\ rr_out.results[n].rank_change
                    = rr_out.results[n].input_index - (n - 1)
        /\ \A n, m \in 1..Len(rr_out.results) :
              n # m => rr_out.results[n].input_index # rr_out.results[m].input_index

\* C15: HybridReranker.rerank gives each candidate the score
\* w_o * (its similarity score) + w_ce * (its own cross-encoder score), the
\* weights being those given to set_weights divided by their sum, and sorts
\* by that score descending.  (With weights 1 and 1, scores 0.8 and 0.4 the
\* numerator is 1200 over the total 2: 0.6.)
C15_HybridScoreUsesOwnScores ==
    (rr_pc = "hybrid_rerank" /\ ~rr_out.raised) =>
        /\ \A n \in 1..(Len(rr_out.results) - 1) :
              rr_out.results[n].rerank_score >= rr_out.results[n + 1].rerank_score
        /\ \A n \in 1..Len(rr_out.results) :
              LET i == rr_out.results[n].input_index + 1
              IN  rr_out.results[n].rerank_score
                     = rr_weights.original * rr_documents[i].similarity_score
                         + rr_weights.cross_encoder * rr_env.scores[i]

\* The queries the entry point that was called had scored.
QueriesScored ==
    IF rr_pc = "batch_rerank" THEN 1..MaxQueries ELSE {1}

\* C16: when the cross-encoder fails while scoring, the reranker call fails
\* with an error to its caller, whichever entry point was called.
C16_ScoringFailureIsRaised ==
    ( /\ rr_pc # "idle"
      /\ rr_documents # <<>>
      /\ rr_env.fails \cap QueriesScored # {} )
    => rr_out.raised

\* C17: FaissStore.similarity_search returns at most min(top_k, number of
\* stored vectors) results, every one with a similarity_score at or above
\* the threshold, in descending score order; a search of an empty index
\* returns an empty list and does not raise.
C17_SearchIsBoundedAndOrdered ==
    (store_type = "faiss" /\ last.op = "search") =>
        /\ Len(index.xb) = 0 => (~last.outcome.raised /\ last.results = <<>>)
        /\ ~last.outcome.raised =>
              /\ Len(last.results) <= Min(last.args.top_k, Len(index.xb))
              /\ \A n \in 1..Len(last.results) :
                    last.results[n].similarity_score >= last.args.similarity_threshold
              /\ \A n \in 1..(Len(last.results) - 1) :
                    last.results[n].similarity_score
                        >= last.results[n + 1].similarity_score

\* A search of two stored vectors that returned both, the better one first.
C17_Witness ==
    /\ store_type = "faiss"
    /\ last.op = "search"
    /\ ~last.outcome.raised
    /\ Len(last.results) = 2
    /\ last.results[1].similarity_score > last.results[2].similarity_score

\* C18: for non-empty content the token ranges of the chunks that
\* chunk_document returns start at offset 0, end at the content's token
\* length, and every range after the first starts at the previous range's
\* end minus chunk_overlap, so every token of the content lies in a range.
\* The first range and the step between ranges are stated on the chunk list
\* as it is built (start is the loop's local, line 89), the rest on the
\* returned list.
C18_ReturnedRangesCoverContent ==
    /\ Len(chunks) >= 1 => chunks[1].start = 0
    /\ \A i \in 1..(Len(chunks) - 1) :
          chunks[i + 1].start = chunks[i].end - chunk_overlap
    /\ (chunker_pc = "returned" /\ tokens > 0) =>
          /\ Len(chunks) >= 1
          /\ chunks[Len(chunks)].end = tokens
          /\ \A t \in 0..(tokens - 1) :
                \E i \in 1..Len(chunks) : chunks[i].start <= t /\ t < chunks[i].end

\* A content longer than chunk_size came back as several chunks.
C18_Witness ==
    /\ chunker_pc = "returned"
    /\ tokens > chunk_size
    /\ Len(chunks) >= 2

\* C19: a content of more than 0 and fewer than chunk_size tokens gives
\* exactly one chunk, whose recorded chunk_overlap is 0; an empty content
\* gives no chunk.  Stated on the chunk list as it is built: it never holds a
\* second chunk, nor a chunk that records an overlap.
C19_ShortContentIsOneChunk ==
    /\ (0 < tokens /\ tokens < chunk_size) =>
          /\ Len(chunks) <= 1
          /\ \A i \in 1..Len(chunks) : chunks[i].chunk_overlap = 0
          /\ chunker_pc = "returned" => Len(chunks) = 1
    /\ (tokens = 0 /\ chunker_pc = "returned") => chunks = <<>>

\* C20: only transient failures (timeout, connection refusal, rate
\* limiting) are retried; a validation or hard failure raised inside a
\* retried operation fails on the first attempt and is never retried.
C20_HardFailureIsNotRetried ==
    (gen_pc = "single_done" /\ gen_env.kind \in HardKinds) =>
        /\ gen_out.raised
        /\ gen_out.calls = 1

\* The str values inside a value, at any depth.
RECURSIVE StrsOf(_)
StrsOf(d) ==
    IF d.type = "dict"
    THEN UNION {StrsOf(d.entries[k]) : k \in DOMAIN d.entries}
    ELSE IF d.type = "list"
         THEN UNION {StrsOf(d.items[i]) : i \in 1..Len(d.items)}
         ELSE {d.chars}

\* str contains sub as a run of consecutive characters.
Contains(str, sub) ==
    \E i \in 1..(Len(str) - Len(sub) + 1) : SubSeq(str, i, i + Len(sub) - 1) = sub

\* C21: _substitute_env_vars replaces a ${VAR} reference that occurs inside
\* a longer string with the value of VAR, through dicts and lists, and
\* leaves values without a reference unchanged: no returned str still holds
\* a reference to a variable that is set, and a value that holds no
\* reference is returned as it is.
C21_ReferencesAreSubstituted ==
    loader_pc = "returned" =>
        /\ \A str \in StrsOf(substituted) :
              \A name \in DOMAIN environ : ~Contains(str, Ref(name[1]))
        /\ (\A str \in StrsOf(config_data) : ~Contains(str, <<"$", "{">>)) =>
              substituted = config_data

\* The vector count, the metadata array and the id-to-position map of the
\* store agree: one vector per record, vector i being the embedding stored
\* with record i, and the map sending each chunk id to a position that
\* holds a record with that id.
FaissConsistent ==
    /\ Len(index.xb) = Len(documents)
    /\ \A i \in 1..Len(documents) :
          \E r \in ChunkPool : /\ FaissDocument(r) = documents[i]
                               /\ index.xb[i] = Normalize(r.embedding)
    /\ \A c \in DOMAIN document_map :
          /\ document_map[c] < Len(documents)
          /\ documents[document_map[c] + 1].chunk_id = c
    /\ \A i \in 1..Len(documents) : documents[i].chunk_id \in DOMAIN document_map

\* C22: for any two concurrently issued add_embeddings / delete_document
\* calls on one FaissStore, the vector count, the metadata array and the
\* id-to-position map are mutually consistent once the calls have ended.
C22_WritersAreSerialized ==
    (\A w \in Writers : writer[w].pc = "done") => FaissConsistent

\* C23: after delete_document has returned, a fresh store initialized from
\* the same path holds exactly the chunks the deleting store held in memory,
\* and no chunk of the deleted document.
C23_DeleteIsPersisted ==
    [][ (Restart /\ last.op = "delete" /\ ~last.outcome.raised) =>
            /\ ~last'.outcome.raised
            /\ documents' = documents
            /\ Len(index'.xb) = Len(index.xb)
            /\ \A i \in 1..Len(documents') : documents'[i].document_id # last.doc ]_vars

\* C24: after a crash between the index-file write and the metadata-file
\* write of _save_index, a later initialize that does not raise never
\* yields a store whose number of indexed vectors differs from its number
\* of metadata records.
C24_CrashInSaveIsSurfaced ==
    (last.op = "restart" /\ last.after = "crash" /\ ~last.outcome.raised) =>
        Len(index.xb) = Len(documents)

\* The exact index and the persistent store hold the same chunk ids, the
\* exact index each of them once.
BackendsAgree ==
    /\ {documents[i].chunk_id : i \in 1..Len(documents)} = DOMAIN table
    /\ \A i, j \in 1..Len(documents) :
          documents[i].chunk_id = documents[j].chunk_id => i = j

\* C25: on a HybridVectorStore whose backends agree, an add_embeddings or
\* delete_document call that returns success leaves them in agreement (so
\* they agree after every sequence of successful calls, the store being
\* empty at first).
C25_BackendsStayInAgreement ==
    [][ ( /\ store_type = "hybrid"
          /\ BackendsAgree
          /\ last'.op \in {"add", "delete"}
          /\ ~last'.outcome.raised
          /\ last'.outcome.value = TRUE ) => BackendsAgree' ]_vars

\* C26: a PgVectorStore creates at most one connection pool, and the pool
\* an operation is using is the one the store holds: no interleaving of
\* the lazy initialize steps creates a second pool or replaces a pool in
\* use.
C26_AtMostOnePool ==
    /\ created <= 1
    /\ \A t \in Tasks : caller[t].using # 0 => caller[t].using = pool

\* C27: once cancel_execution has set the status of an execution to
\* CANCELLED, the status never changes again, also when execute_workflow
\* finishes its steps later.
C27_CancellationIsFinal ==
    [][ status = "cancelled" => status' = "cancelled" ]_vars

\* C28: in every reachable state of a UnifiedVectorStore store_type names
\* the backend object held in store, and the state after a switch_store call
\* that raised is one in which it does.
C28_StoreTypeNamesStore ==
    \/ store_type = "pgvector" /\ store.class = "PgVectorStore"
    \/ store_type = "faiss" /\ store.class = "FaissStore"

\* The chunk ids of a search's results.
ResultIds(results) == {results[n].chunk_id : n \in 1..Len(results)}

\* The two backends hold the same chunks: the same ids, each with the same
\* content and the same vector up to its length.
SameStoredChunks ==
    /\ BackendsAgree
    /\ Len(index.xb) = Len(documents)
    /\ \A i \in 1..Len(documents) :
          /\ table[documents[i].chunk_id].content = documents[i].content
          /\ table[documents[i].chunk_id].document_id = documents[i].document_id
          /\ Normalize(table[documents[i].chunk_id].embedding) = index.xb[i]

\* C29: when the exact index and the persistent store of a hybrid store
\* hold the same chunks, they answer a search without a metadata filter,
\* for every query, top_k and threshold, with the same set of chunk ids,
\* a chunk whose similarity equals the threshold included.
C29_BackendsApplyThresholdAlike ==
    (store_type = "hybrid" /\ ~index.none /\ SameStoredChunks) =>
        \A q \in Queries, k \in 1..MaxTopK, t \in Thresholds :
            /\ ~FaissSimilaritySearch(FS, q, k, t).raised
            /\ ResultIds(FaissSimilaritySearch(FS, q, k, t).results)
                  = ResultIds(PgSimilaritySearch(table, q, k, t))

\* C30: the 'total_chunks' recorded in each chunk's metadata, and the chunk
\* estimate of estimate_cost for the document, equal the number of chunks
\* chunk_document produces for the content: the chunk that reaches the end
\* of the content is chunk number total_chunks, and a returned list has
\* total_chunks chunks.
C30_ChunkCountsMatch ==
    /\ \A i \in 1..Len(chunks) :
          (chunks[i].end = tokens /\ \A j \in 1..(i - 1) : chunks[j].end < tokens) =>
              /\ chunks[i].total_chunks = i
              /\ EstimateCost(<<tokens>>, chunk_size).estimated_chunks = i
    /\ chunker_pc = "returned" =>
          /\ \A i \in 1..Len(chunks) : chunks[i].total_chunks = Len(chunks)
          /\ EstimateCost(<<tokens>>, chunk_size).estimated_chunks = Len(chunks)

=============================================================================
